---------------------------- MODULE Spec2Model ----------------------------
(***************************************************************************)
(* Product search + chatbot service (app/main.py, app/search_engine.py).   *)
(*                                                                         *)
(* Text is modelled as a sequence of one-character strings, so that the    *)
(* regular expressions, the substring tests and the number conversions of  *)
(* the code are computed on characters.  "rupee" stands for the one        *)
(* character U+20B9.  Numbers produced by float() are kept in hundredths   *)
(* (fixed point), which is exact for the inputs of the model.              *)
(***************************************************************************)
EXTENDS Integers, Sequences, FiniteSets, TLC

VARIABLES
    \* ---- files on disk
    disk,            \* data/*.csv : sequence of [name, content] in listdir order
    persist,         \* persist/*.joblib : [vec, mat, meta, corpus], each a file
    \* ---- module globals of app/main.py
    DATA, CORPUS, METADATA, VECTORIZER, TFIDF_MATRIX,
    \* ---- request threads
    pc,              \* position of each /admin/rebuild worker in admin_rebuild
    loc,             \* the worker's evaluated call argument and request bookkeeping
    resp,            \* the last response of an /admin endpoint
    qobs,            \* the last answer of GET /search: its status and result count
    nchanges, nrebuilds, nrestarts,   \* counters that bound the model
    \* ---- direct calls of the pure functions of app/search_engine.py
    fn,              \* which function the call applies ("none" before the call)
    arg,             \* its arguments
    ret              \* its result

vars == << disk, persist, DATA, CORPUS, METADATA, VECTORIZER, TFIDF_MATRIX,
           pc, loc, resp, qobs, nchanges, nrebuilds, nrestarts, fn, arg, ret >>

server_vars == << disk, persist, DATA, CORPUS, METADATA, VECTORIZER, TFIDF_MATRIX,
                  pc, loc, resp, qobs, nchanges, nrebuilds, nrestarts >>

call_vars == << fn, arg, ret >>

---------------------------------------------------------------------------
(* Characters and strings (Python str)                                     *)

UpperChars == << "A","B","C","D","E","F","G","H","I","J","K","L","M",
                 "N","O","P","Q","R","S","T","U","V","W","X","Y","Z" >>

LowerChars == << "a","b","c","d","e","f","g","h","i","j","k","l","m",
                 "n","o","p","q","r","s","t","u","v","w","x","y","z" >>

DigitChars == << "0","1","2","3","4","5","6","7","8","9" >>

Range(s) == { s[i] : i \in DOMAIN s }

\* regex class \d
Digit == Range(DigitChars)

\* regex class [\d,]
DigitComma == Digit \cup {","}

\* regex class \s
Space == {" "}

\* regex class \w
WordChar == Range(UpperChars) \cup Range(LowerChars) \cup Digit \cup {"_"}

\* str.lower() on one character
lower_char(c) ==
    IF c \in Range(UpperChars)
    THEN LowerChars[CHOOSE i \in DOMAIN UpperChars : UpperChars[i] = c]
    ELSE c

\* str.lower()
RECURSIVE lower(_)
lower(s) == IF s = << >> THEN << >> ELSE << lower_char(Head(s)) >> \o lower(Tail(s))

\* s[i:].startswith(w), i counted from 1
StartsAt(s, i, w) ==
    /\ i >= 1
    /\ i + Len(w) - 1 <= Len(s)
    /\ SubSeq(s, i, i + Len(w) - 1) = w

\* Python's  w in s
Contains(s, w) == \E i \in 1..(Len(s) + 1) : StartsAt(s, i, w)

\* any(w in s for w in words)
ContainsAny(s, words) == \E k \in DOMAIN words : Contains(s, words[k])

\* the first position at or after i whose character is not in class cls
\* (Len(s)+1 when the run reaches the end): a greedy cls* from position i
SkipClass(s, i, cls) ==
    CHOOSE j \in i..(Len(s) + 1) :
        /\ \A k \in i..(j - 1) : s[k] \in cls
        /\ j = Len(s) + 1 \/ s[j] \notin cls

\* the characters of s that satisfy keep, in order: re.sub / str.replace that
\* delete single characters
RECURSIVE Filter(_, _)
Filter(s, keep) ==
    IF s = << >> THEN << >>
    ELSE IF Head(s) \in keep THEN << Head(s) >> \o Filter(Tail(s), keep)
    ELSE Filter(Tail(s), keep)

\* str.strip()
RECURSIVE lstrip(_)
lstrip(s) == IF s # << >> /\ Head(s) \in Space THEN lstrip(Tail(s)) ELSE s

RECURSIVE rstrip(_)
rstrip(s) ==
    IF s # << >> /\ s[Len(s)] \in Space THEN rstrip(SubSeq(s, 1, Len(s) - 1)) ELSE s

strip(s) == rstrip(lstrip(s))

\* str.replace(a, b) for single characters a, b
RECURSIVE replace_char(_, _, _)
replace_char(s, a, b) ==
    IF s = << >> THEN << >>
    ELSE << IF Head(s) = a THEN b ELSE Head(s) >> \o replace_char(Tail(s), a, b)

\* ' '.join(parts)
RECURSIVE join(_)
join(parts) ==
    IF parts = << >> THEN << >>
    ELSE IF Len(parts) = 1 THEN parts[1]
    ELSE parts[1] \o << " " >> \o join(Tail(parts))

---------------------------------------------------------------------------
(* Optional numbers: None, or a float kept in hundredths                   *)

None == [kind |-> "None", val |-> 0]

Num(v) == [kind |-> "num", val |-> v]

\* float('inf'): no function of the model returns it; the tests compare with it
Inf == [kind |-> "inf", val |-> 0]

\* Python truthiness of an Optional[float]: None and 0.0 are false
Truthy(x) == x.kind = "inf" \/ (x.kind = "num" /\ x.val # 0)

DigitVal(c) == (CHOOSE i \in DOMAIN DigitChars : DigitChars[i] = c) - 1

RECURSIVE NatOf(_)
NatOf(ds) ==
    IF ds = << >> THEN 0
    ELSE NatOf(SubSeq(ds, 1, Len(ds) - 1)) * 10 + DigitVal(ds[Len(ds)])

\* float(s) for s made of digits and dots: [ok |-> FALSE] is ValueError.
\* The value is in hundredths; digits after the second decimal are dropped.
float(s) ==
    LET dots   == { i \in DOMAIN s : s[i] = "." }
        digits == { i \in DOMAIN s : s[i] \in Digit }
        dot    == IF dots = {} THEN Len(s) + 1 ELSE CHOOSE i \in dots : TRUE
        ip     == SubSeq(s, 1, dot - 1)
        fp     == SubSeq(s, dot + 1, Len(s)) \o << "0", "0" >>
    IN  IF digits = {} \/ Cardinality(dots) > 1
           \/ Cardinality(dots) + Cardinality(digits) # Len(s)
        THEN [ok |-> FALSE, val |-> 0]
        ELSE [ok |-> TRUE, val |-> NatOf(ip) * 100 + NatOf(SubSeq(fp, 1, 2))]

---------------------------------------------------------------------------
(* parse_price_constraints: the four regular expressions                   *)

NoMatch == [ok |-> FALSE, g1 |-> << >>, g2 |-> << >>]

\* re.match of  between\s+([\d,]+)\s*(?:and|-)\s*([\d,]+)  at position i.
\* The character classes that follow one another are disjoint, so the greedy
\* match is the only one.
match_between_at(q, i) ==
    LET a0 == i + 7
        a1 == SkipClass(q, a0, Space)
        a2 == SkipClass(q, a1, DigitComma)
        a3 == SkipClass(q, a2, Space)
        a4 == IF StartsAt(q, a3, <<"a","n","d">>) THEN a3 + 3
              ELSE IF StartsAt(q, a3, <<"-">>) THEN a3 + 1
              ELSE 0
        a5 == SkipClass(q, a4, Space)
        a6 == SkipClass(q, a5, DigitComma)
    IN  IF ~StartsAt(q, i, <<"b","e","t","w","e","e","n">>) THEN NoMatch
        ELSE IF a1 = a0 \/ a2 = a1 \/ a4 = 0 THEN NoMatch
        ELSE IF a6 = a5 THEN NoMatch
        ELSE [ok |-> TRUE, g1 |-> SubSeq(q, a1, a2 - 1), g2 |-> SubSeq(q, a5, a6 - 1)]

\* re.match of  ([\d,]+)\s*-\s*([\d,]+)  at position i
match_range_at(q, i) ==
    LET a1 == SkipClass(q, i, DigitComma)
        a2 == SkipClass(q, a1, Space)
        a3 == SkipClass(q, a2 + 1, Space)
        a4 == SkipClass(q, a3, DigitComma)
    IN  IF a1 = i \/ ~StartsAt(q, a2, <<"-">>) THEN NoMatch
        ELSE IF a4 = a3 THEN NoMatch
        ELSE [ok |-> TRUE, g1 |-> SubSeq(q, i, a1 - 1), g2 |-> SubSeq(q, a3, a4 - 1)]

\* the tail  \s*<rupee>?\s*([\d,]+)  of the keyword patterns, from position j
match_amount_at(q, j) ==
    LET a1 == SkipClass(q, j, Space)
        a2 == IF StartsAt(q, a1, << "rupee" >>) THEN a1 + 1 ELSE a1
        a3 == SkipClass(q, a2, Space)
        a4 == SkipClass(q, a3, DigitComma)
    IN  IF a4 = a3 THEN NoMatch
        ELSE [ok |-> TRUE, g1 |-> SubSeq(q, a3, a4 - 1), g2 |-> << >>]

\* (?:under|below|less than|max|maximum)
UpperKeywords == << <<"u","n","d","e","r">>, <<"b","e","l","o","w">>, <<"l","e","s","s"," ","t","h","a","n">>, <<"m","a","x">>, <<"m","a","x","i","m","u","m">> >>

\* (?:over|above|more than|min|minimum)
LowerKeywords == << <<"o","v","e","r">>, <<"a","b","o","v","e">>, <<"m","o","r","e"," ","t","h","a","n">>, <<"m","i","n">>, <<"m","i","n","i","m","u","m">> >>

\* re.match of  (?:kw1|kw2|...)\s*<rupee>?\s*([\d,]+)  at position i: the
\* alternatives are tried in order, the first that lets the tail match wins
match_keyword_at(q, i, kws) ==
    LET fits == { k \in DOMAIN kws :
                    /\ StartsAt(q, i, kws[k])
                    /\ match_amount_at(q, i + Len(kws[k])).ok }
    IN  IF fits = {} THEN NoMatch
        ELSE LET k == CHOOSE x \in fits : \A y \in fits : x <= y
             IN  match_amount_at(q, i + Len(kws[k]))

\* re.search: the match at the leftmost position that has one
first_match(starts) ==
    IF starts = {} THEN 0 ELSE CHOOSE i \in starts : \A j \in starts : i <= j

search_between(q) ==
    LET i == first_match({ j \in DOMAIN q : match_between_at(q, j).ok })
    IN  IF i = 0 THEN NoMatch ELSE match_between_at(q, i)

search_range(q) ==
    LET i == first_match({ j \in DOMAIN q : match_range_at(q, j).ok })
    IN  IF i = 0 THEN NoMatch ELSE match_range_at(q, i)

search_upper(q) ==
    LET i == first_match({ j \in DOMAIN q : match_keyword_at(q, j, UpperKeywords).ok })
    IN  IF i = 0 THEN NoMatch ELSE match_keyword_at(q, i, UpperKeywords)

search_lower(q) ==
    LET i == first_match({ j \in DOMAIN q : match_keyword_at(q, j, LowerKeywords).ok })
    IN  IF i = 0 THEN NoMatch ELSE match_keyword_at(q, i, LowerKeywords)

\* float(m.group(k).replace(',', ''))
group_float(g) == float(Filter(g, Digit))

ValueError == [raised |-> TRUE, min |-> None, max |-> None]

Bounds(lo, hi) == [raised |-> FALSE, min |-> lo, max |-> hi]

Min2(a, b) == IF a <= b THEN a ELSE b

Max2(a, b) == IF a >= b THEN a ELSE b

\* return min(low, high), max(low, high)
range_result(m) ==
    LET low  == group_float(m.g1)
        high == group_float(m.g2)
    IN  IF ~low.ok \/ ~high.ok THEN ValueError
        ELSE Bounds(Num(Min2(low.val, high.val)), Num(Max2(low.val, high.val)))

\* return None, float(...)
upper_result(m) ==
    LET n == group_float(m.g1)
    IN  IF ~n.ok THEN ValueError ELSE Bounds(None, Num(n.val))

\* return float(...), None
lower_result(m) ==
    LET n == group_float(m.g1)
    IN  IF ~n.ok THEN ValueError ELSE Bounds(Num(n.val), None)

\* parse_price_constraints with the keyword patterns tried before the ranges
parse_price_constraints_keywords_first(query) ==
    LET q  == lower(query)
        m1 == search_between(q)
        m2 == search_range(q)
        m3 == search_upper(q)
        m4 == search_lower(q)
    IN  IF m3.ok THEN upper_result(m3)
        ELSE IF m4.ok THEN lower_result(m4)
        ELSE IF m1.ok THEN range_result(m1)
        ELSE IF m2.ok THEN range_result(m2)
        ELSE Bounds(None, None)

parse_price_constraints(query) ==
    LET q  == lower(query)
        m1 == search_between(q)
        m2 == search_range(q)
        m3 == search_upper(q)
        m4 == search_lower(q)
    IN  IF m1.ok THEN range_result(m1)
        ELSE IF m2.ok THEN range_result(m2)
        ELSE IF m3.ok THEN upper_result(m3)
        ELSE IF m4.ok THEN lower_result(m4)
        ELSE Bounds(None, None)

---------------------------------------------------------------------------
(* load_data: data/*.csv into a dict of DataFrames                         *)

\* A missing cell (NaN); pandas reads an empty cell and "N/A" as NaN
NaN == << "NaN" >>

\* Optional[str] None
NoneStr == << "None" >>

\* Python truthiness of an Optional[str]
Falsy(s) == s = NoneStr \/ s = << >>

EndsWith(s, w) == Len(s) >= Len(w) /\ SubSeq(s, Len(s) - Len(w) + 1, Len(s)) = w

\* df.columns.str.strip().str.lower().str.replace(' ', '_')
normalize_column(c) == replace_char(lower(strip(c)), " ", "_")

\* One file of the data directory read into a DataFrame with normalized columns
read_csv(file) ==
    [ category |-> SubSeq(file.name, 1, Len(file.name) - 4),
      columns  |-> [i \in DOMAIN file.columns |-> normalize_column(file.columns[i])],
      rows     |-> file.rows ]

CsvFiles(d) == SelectSeq(d.files, LAMBDA f : EndsWith(f.name, <<".","c","s","v">>))

\* load_data(): None (the model's [ok |-> FALSE]) when the directory is
\* missing, when any csv file cannot be read, or when there is no csv file;
\* one exception aborts the whole loop.
load_data(d) ==
    LET csv == CsvFiles(d)
    IN  IF ~d.exists THEN [ok |-> FALSE, dict |-> << >>]
        ELSE IF \E i \in DOMAIN csv : ~csv[i].readable THEN [ok |-> FALSE, dict |-> << >>]
        ELSE IF csv = << >> THEN [ok |-> FALSE, dict |-> << >>]
        ELSE [ok |-> TRUE, dict |-> [i \in DOMAIN csv |-> read_csv(csv[i])]]

\* search_engine.load_data() or {}
load_data_or_empty(d) == IF load_data(d).ok THEN load_data(d).dict ELSE << >>

---------------------------------------------------------------------------
(* build_corpus_from_data                                                  *)

important_fields ==
    << <<"n","a","m","e">>, <<"m","o","d","e","l">>, <<"b","r","a","n","d">>, <<"t","i","t","l","e">>, <<"p","r","o","c","e","s","s","o","r">>, <<"r","a","m">>,
       <<"s","t","o","r","a","g","e">>, <<"m","e","m","o","r","y">>, <<"d","i","s","p","l","a","y">>, <<"c","a","m","e","r","a">>, <<"b","a","t","t","e","r","y">>, <<"o","s">> >>

\* [x] * n
Repeat(x, n) == [i \in 1..n |-> x]

\* a variant that repeats no field
field_weight_flat(col) == 1

\* weight = 3 if any(imp in str(col) for imp in important_fields) else 1
field_weight(col) == IF ContainsAny(col, important_fields) THEN 3 ELSE 1

\* the parts one (col, val) pair of a row adds
field_parts(col, val) ==
    IF val = NaN THEN << >>
    ELSE IF strip(val) = << >> THEN << >>
    ELSE << col >> \o Repeat(strip(val), field_weight(col))

RECURSIVE row_parts(_, _, _)
row_parts(columns, values, k) ==
    IF k > Len(columns) THEN << >>
    ELSE field_parts(columns[k], values[k]) \o row_parts(columns, values, k + 1)

\* the text of one record: ' '.join(parts)
document_text(category, row) ==
    join(Repeat(category, 3) \o row_parts(row.columns, row.values, 1))

\* one row of df.iterrows(): the Series (its index is df.columns)
row_of(df, i) == [columns |-> df.columns, values |-> df.rows[i]]

\* the (text, metadata) pairs of one DataFrame, rows in order; idx is the
\* RangeIndex label of the row, counted from 0
frame_docs(df) ==
    [i \in DOMAIN df.rows |->
        [ text |-> document_text(df.category, row_of(df, i)),
          meta |-> [category |-> df.category, index |-> i - 1, row |-> row_of(df, i)] ]]

RECURSIVE data_docs(_, _)
data_docs(data, k) ==
    IF k > Len(data) THEN << >>
    ELSE frame_docs(data[k]) \o data_docs(data, k + 1)

build_corpus_from_data(data) ==
    LET docs == data_docs(data, 1)
    IN  [ corpus   |-> [i \in DOMAIN docs |-> docs[i].text],
          metadata |-> [i \in DOMAIN docs |-> docs[i].meta] ]

---------------------------------------------------------------------------
(* build_tfidf_index: TfidfVectorizer(stop_words='english',                *)
(* max_features=15000, ngram_range=(1, 3), min_df=2, max_df=0.9, ...)      *)
(* The weights of the library (sublinear tf times idf, L2-normalised) are  *)
(* real numbers; the model keeps which vocabulary terms a document holds   *)
(* and scores by the cosine of these 0/1 vectors.  max_features is never   *)
(* reached by the corpora of the model.                                    *)

\* the words of the 'english' stop list that the texts of the model can hold
StopWords ==
    { <<"a","n","d">>, <<"b","e","t","w","e","e","n">>, <<"u","n","d","e","r">>, <<"b","e","l","o","w">>, <<"o","v","e","r">>, <<"a","b","o","v","e">>,
      <<"l","e","s","s">>, <<"t","h","a","n">>, <<"m","o","r","e">>, <<"s","h","o","w">>, <<"m","e">>, <<"f","i","n","d">> }

\* token_pattern (?u)\b\w\w+\b on the lower-cased text: the maximal runs of
\* word characters of length 2 or more, in order
RECURSIVE tokens_from(_, _)
tokens_from(s, i) ==
    IF i > Len(s) THEN << >>
    ELSE IF s[i] \notin WordChar THEN tokens_from(s, i + 1)
    ELSE LET j == SkipClass(s, i, WordChar)
         IN  (IF j - i >= 2 THEN << SubSeq(s, i, j - 1) >> ELSE << >>)
             \o tokens_from(s, j)

tokenize(text) ==
    SelectSeq(tokens_from(lower(text), 1), LAMBDA t : t \notin StopWords)

\* ngram_range=(1, 3): the terms of a text
ngrams(text) ==
    LET t == tokenize(text)
    IN  { SubSeq(t, i, i + n - 1) : <<i, n>> \in
            { p \in (1..Len(t)) \X (1..3) : p[1] + p[2] - 1 <= Len(t) } }

\* None for the vectorizer and for the matrix
NoVectorizer == [none |-> TRUE, vocabulary |-> {}]

NoMatrix == [none |-> TRUE, rows |-> << >>]

\* min_df
MinDf == 2

\* the terms of every document of the corpus, from position k on
RECURSIVE corpus_terms(_, _)
corpus_terms(corpus, k) ==
    IF k > Len(corpus) THEN << >>
    ELSE << ngrams(corpus[k]) >> \o corpus_terms(corpus, k + 1)

\* the rows of the matrix: each document's terms that are in the vocabulary
RECURSIVE restrict_rows(_, _, _)
restrict_rows(dt, vocab, k) ==
    IF k > Len(dt) THEN << >>
    ELSE << dt[k] \cap vocab >> \o restrict_rows(dt, vocab, k + 1)

\* build_tfidf_index(corpus): (vectorizer, tfidf_matrix), or (None, None)
\* when fit_transform raises: no term at all, max_df * n_docs < min_df, or no
\* term left after pruning by document count (max_df = 0.9: df <= 0.9 * n_docs)
build_tfidf_index(corpus) ==
    LET n     == Len(corpus)
        dt    == corpus_terms(corpus, 1)
        terms == UNION Range(dt)
        df(t) == Cardinality({ i \in DOMAIN dt : t \in dt[i] })
        vocab == { t \in terms : df(t) >= MinDf /\ 10 * df(t) <= 9 * n }
    IN  IF terms = {} \/ 9 * n < 10 * MinDf \/ vocab = {}
        THEN [vectorizer |-> NoVectorizer, tfidf_matrix |-> NoMatrix]
        ELSE [ vectorizer   |-> [none |-> FALSE, vocabulary |-> vocab],
               tfidf_matrix |-> [none |-> FALSE, rows |-> restrict_rows(dt, vocab, 1)] ]

---------------------------------------------------------------------------
(* extract_price_value, row_to_json_safe_dict                              *)

\* s = re.sub(r'[^\d\.]', '', str(val)); float(s) if s else nothing
price_of_value(val) ==
    LET s == Filter(val, Digit \cup {"."})
    IN  IF val = NaN \/ s = << >> THEN [ok |-> FALSE, val |-> 0] ELSE float(s)

\* the first column, from position k on, whose name contains 'price' and
\* whose value converts: None when there is none
RECURSIVE extract_price_from(_, _)
extract_price_from(row, k) ==
    IF k > Len(row.columns) THEN None
    ELSE IF Contains(lower(row.columns[k]), <<"p","r","i","c","e">>) /\ price_of_value(row.values[k]).ok
         THEN Num(price_of_value(row.values[k]).val)
         ELSE extract_price_from(row, k + 1)

extract_price_value(row) == extract_price_from(row, 1)

\* JSON null
JsonNull == << "null" >>

\* row_to_json_safe_dict: the row as a dict, NaN as None
row_to_json_safe_dict(row) ==
    [ columns |-> row.columns,
      values  |-> [i \in DOMAIN row.values |->
                     IF row.values[i] = NaN THEN JsonNull ELSE row.values[i]] ]

---------------------------------------------------------------------------
(* retrieve_with_index                                                     *)

\* candidate_indices = sims.argsort()[::-1][:min(200, len(sims))]
MaxCandidates == 200

\* if score < 0.05: continue  (scores are kept in hundredths)
ScoreThreshold == 5

headphone_words == << <<"h","e","a","d","p","h","o","n","e">>, <<"h","e","a","d","s","e","t">>, <<"e","a","r","b","u","d">> >>

mobile_words == << <<"m","o","b","i","l","e">>, <<"s","m","a","r","t","p","h","o","n","e">>, <<"p","h","o","n","e">> >>

laptop_words == << <<"l","a","p","t","o","p">>, <<"n","o","t","e","b","o","o","k">>, <<"p","c">> >>

\* Smart Category Detection: the filter in force
infer_category(query_lower) ==
    IF ContainsAny(query_lower, headphone_words) THEN <<"h","e","a","d","p","h","o","n","e">>
    ELSE IF ContainsAny(query_lower, mobile_words) THEN <<"m","o","b","i","l","e">>
    ELSE IF ContainsAny(query_lower, laptop_words) THEN <<"l","a","p","t","o","p">>
    ELSE NoneStr

\* a variant that infers the category whether or not a filter is given
effective_category_always_inferred(query, category_filter) == infer_category(lower(query))

\* if not category_filter: <infer>
effective_category(query, category_filter) ==
    IF Falsy(category_filter) THEN infer_category(lower(query)) ELSE category_filter

\* the category test that lets every record pass
category_skip_never(category_filter, meta) == FALSE

\* if category_filter and meta['category'] != category_filter: continue
category_skip(category_filter, meta) ==
    ~Falsy(category_filter) /\ meta.category # category_filter

\* if (min_p and price_val and price_val < min_p) or
\*    (max_p and price_val and price_val > max_p): continue
price_skip(min_p, max_p, price_val) ==
    \/ Truthy(min_p) /\ Truthy(price_val) /\ price_val.val < min_p.val
    \/ Truthy(max_p) /\ Truthy(price_val) /\ price_val.val > max_p.val

\* floor(100 * cosine) of two 0/1 vectors with m common terms and a, b terms
cosine100(m, a, b) ==
    IF m = 0 \/ a = 0 \/ b = 0 THEN 0
    ELSE CHOOSE r \in 0..100 :
            /\ r * r * a * b <= 10000 * m * m
            /\ (r + 1) * (r + 1) * a * b > 10000 * m * m

\* the cosine of q_vec with each row of the matrix, from row k on
RECURSIVE row_cosines(_, _, _)
row_cosines(q_vec, rows, k) ==
    IF k > Len(rows) THEN << >>
    ELSE << cosine100(Cardinality(q_vec \cap rows[k]),
                      Cardinality(q_vec), Cardinality(rows[k])) >>
         \o row_cosines(q_vec, rows, k + 1)

\* q_vec = vectorizer.transform([query]);
\* sims = cosine_similarity(q_vec, tfidf_matrix).flatten()
similarities(query, vectorizer, tfidf_matrix) ==
    row_cosines(ngrams(query) \cap vectorizer.vocabulary, tfidf_matrix.rows, 1)

\* sims.argsort()[::-1]: the document positions by descending score.  The
\* order among equal scores depends on the sort algorithm numpy picks, so
\* every order that is descending in score is a possible outcome.
argsort_desc(sims) ==
    LET n == Len(sims)
    IN  { p \in [1..n -> 1..n] :
            /\ \A i, j \in 1..n : i # j => p[i] # p[j]
            /\ \A i \in 1..(n - 1) : sims[p[i]] >= sims[p[i + 1]] }

\* the hit appended for document idx
make_hit(score, meta) ==
    [ score |-> score,
      data  |-> row_to_json_safe_dict(meta.row),
      meta  |-> [category |-> meta.category, index |-> meta.index],
      row   |-> row_to_json_safe_dict(meta.row) ]

IndexError == [raised |-> TRUE, hits |-> << >>]

\* the state of the loop over candidate_indices: the hits so far, whether
\* the loop has ended (break) and whether metadata[idx] raised
LoopState(raised, done, hits) == [raised |-> raised, done |-> done, hits |-> hits]

\* one turn of the loop, for candidate idx
scan_step(idx, sims, metadata, top_k, category_filter, min_p, max_p, st) ==
    IF st.raised \/ st.done THEN st
    ELSE IF sims[idx] < ScoreThreshold THEN st
    ELSE IF idx > Len(metadata) THEN LoopState(TRUE, TRUE, << >>)
    ELSE IF category_skip(category_filter, metadata[idx]) THEN st
    ELSE IF price_skip(min_p, max_p, extract_price_value(metadata[idx].row)) THEN st
    ELSE LoopState(FALSE, Len(st.hits) + 1 >= top_k,
                   Append(st.hits, make_hit(sims[idx], metadata[idx])))

\* the turns of the loop for cands[lo..hi] in order, from state st.  The
\* range is halved to keep the evaluation shallow, and the second half is
\* not entered once the loop has ended.
RECURSIVE scan_range(_, _, _, _, _, _, _, _, _, _)
RECURSIVE scan_rest(_, _, _, _, _, _, _, _, _, _)
scan_rest(cands, lo, hi, sims, metadata, top_k, category_filter, min_p, max_p, st) ==
    IF st.raised \/ st.done THEN st
    ELSE scan_range(cands, lo, hi, sims, metadata, top_k, category_filter, min_p, max_p, st)

scan_range(cands, lo, hi, sims, metadata, top_k, category_filter, min_p, max_p, st) ==
    IF lo > hi THEN st
    ELSE IF lo = hi
         THEN scan_step(cands[lo], sims, metadata, top_k, category_filter, min_p, max_p, st)
         ELSE scan_rest(cands, (lo + hi) \div 2 + 1, hi, sims, metadata, top_k,
                        category_filter, min_p, max_p,
                        scan_range(cands, lo, (lo + hi) \div 2, sims, metadata, top_k,
                                   category_filter, min_p, max_p, st))

\* the loop over candidate_indices from position k, with the hits so far
scan_candidates(cands, k, sims, metadata, top_k, category_filter, min_p, max_p, results) ==
    LET st == scan_range(cands, k, Len(cands), sims, metadata, top_k, category_filter,
                         min_p, max_p, LoopState(FALSE, FALSE, results))
    IN  [raised |-> st.raised, hits |-> st.hits]

\* a variant that scans every position of the sorted order, not the first 200
retrieve_scan_whole_order(order, sims, price, metadata, top_k, category_filter) ==
    IF price.raised THEN [raised |-> TRUE, hits |-> << >>]
    ELSE scan_candidates(order, 1, sims, metadata, top_k, category_filter,
                         price.min, price.max, << >>)

\* the part of retrieve_with_index after sims and (min_p, max_p) are computed
retrieve_scan(order, sims, price, metadata, top_k, category_filter) ==
    IF price.raised THEN [raised |-> TRUE, hits |-> << >>]
    ELSE scan_candidates(SubSeq(order, 1, Min2(MaxCandidates, Len(sims))), 1, sims,
                         metadata, top_k, category_filter, price.min, price.max, << >>)

\* retrieve_with_index, given the order argsort produced: [raised, hits];
\* raised is an exception leaving the function (ValueError of
\* parse_price_constraints, IndexError of metadata[idx])
retrieve_with_index(query, vectorizer, tfidf_matrix, metadata, top_k, category_filter, order) ==
    IF vectorizer.none \/ tfidf_matrix.none THEN [raised |-> FALSE, hits |-> << >>]
    ELSE retrieve_scan(order, similarities(query, vectorizer, tfidf_matrix),
                       parse_price_constraints(query), metadata, top_k,
                       effective_category(query, category_filter))

\* the orders argsort can produce for this call
retrieve_orders(query, vectorizer, tfidf_matrix) ==
    IF vectorizer.none \/ tfidf_matrix.none THEN { << >> }
    ELSE argsort_desc(similarities(query, vectorizer, tfidf_matrix))


---------------------------------------------------------------------------
(* The chat router: get_gemini_response and generate_chat_response         *)

\* the end of the token of s that starts at position i
RECURSIVE token_end(_, _)
token_end(s, i) == IF i > Len(s) \/ s[i] \in Space THEN i ELSE token_end(s, i + 1)

\* str.split(): the whitespace-separated tokens of s
RECURSIVE split(_)
split(s) ==
    LET t == lstrip(s)
    IN  IF t = << >> THEN << >>
        ELSE << SubSeq(t, 1, token_end(t, 1) - 1) >>
             \o split(SubSeq(t, token_end(t, 1), Len(t)))

\* the placeholder key get_gemini_response treats as no key
DummyKey == <<"D","U","M","M","Y","_","K","E","Y","_","B","E","C","A","U","S","E","_","W","E","_","H","A","V","E","_","T","O">>

UnavailableReply ==
    <<"I"," ","a","m"," ","u","n","a","b","l","e"," ","t","o"," ","u","s","e"," ","t","h","e"," ","g","e","n","e","r","a","t","i","v","e"," ","A","I"," ","s","e","r","v","i","c","e"," ","a","t"," ","t","h","i","s"," ","t","i","m","e","."," ","I"," ","c","a","n"," ","o","n","l","y"," ","p","r","o","v","i","d","e"," ","i","n","f","o","r","m","a","t","i","o","n"," ","b","a","s","e","d"," ","o","n"," ","t","h","e"," ","a","v","a","i","l","a","b","l","e"," ","p","r","o","d","u","c","t"," ","d","a","t","a",".">>

EmptyReply ==
    <<"I"," ","c","o","u","l","d"," ","n","o","t"," ","g","e","n","e","r","a","t","e"," ","a"," ","r","e","s","p","o","n","s","e"," ","f","o","r"," ","t","h","a","t"," ","r","e","q","u","e","s","t","."," ","P","l","e","a","s","e"," ","t","r","y"," ","p","h","r","a","s","i","n","g"," ","y","o","u","r"," ","q","u","e","s","t","i","o","n"," ","d","i","f","f","e","r","e","n","t","l","y",".">>

ConnectReply ==
    <<"I","'","m"," ","s","o","r","r","y",","," ","I","'","m"," ","h","a","v","i","n","g"," ","t","r","o","u","b","l","e"," ","c","o","n","n","e","c","t","i","n","g"," ","t","o"," ","t","h","e"," ","g","e","n","e","r","a","t","i","v","e"," ","A","I"," ","s","e","r","v","i","c","e"," ","r","i","g","h","t"," ","n","o","w",".">>

\* the default of the retries parameter
DefaultRetries == 2

\* What one attempt of get_gemini_response meets:
\*   "no_model"  no model name is available (RuntimeError before the request)
\*   "raise"     model.generate_content raises
\*   "empty"     the response is falsy or its text is empty
\*   "text"      the response carries the text env.text
AttemptOutcomes == { "no_model", "raise", "empty", "text" }

\* a result of get_gemini_response: the text returned (NoneStr when the
\* function falls off its end), the prompts given to generate_content and
\* the number of sleeps between attempts
GeminiResult(text, prompts, sleeps) == [text |-> text, prompts |-> prompts, sleeps |-> sleeps]

\* for attempt in range(retries): the loop from the given attempt on.  The
\* callers leave tone at 'casual', so the text is returned as generated.
RECURSIVE gemini_attempts(_, _, _, _, _, _)
gemini_attempts(query, retries, env, attempt, prompts, sleeps) ==
    IF attempt >= retries THEN GeminiResult(NoneStr, prompts, sleeps)
    ELSE LET outcome == env.attempts[attempt + 1]
         IN  IF outcome = "text" THEN GeminiResult(env.text, Append(prompts, query), sleeps)
             ELSE IF outcome = "empty"
                  THEN GeminiResult(EmptyReply, Append(prompts, query), sleeps)
             ELSE IF attempt < retries - 1
                  THEN gemini_attempts(query, retries, env, attempt + 1,
                           IF outcome = "raise" THEN Append(prompts, query) ELSE prompts,
                           sleeps + 1)
             ELSE GeminiResult(ConnectReply,
                      IF outcome = "raise" THEN Append(prompts, query) ELSE prompts, sleeps)

\* a variant that lets a failed or empty request through without an apology
get_gemini_response_no_apology(query, retries, env) ==
    IF Falsy(env.api_key) \/ env.api_key = DummyKey
    THEN GeminiResult(UnavailableReply, << >>, 0)
    ELSE IF gemini_attempts(query, retries, env, 0, << >>, 0).text \in { EmptyReply, ConnectReply }
    THEN GeminiResult(NoneStr, << >>, 0)
    ELSE gemini_attempts(query, retries, env, 0, << >>, 0)

\* get_gemini_response(query, retries=retries) in the environment env:
\* env.api_key is GEMINI_API_KEY, env.attempts what each attempt meets
get_gemini_response(query, retries, env) ==
    IF Falsy(env.api_key) \/ env.api_key = DummyKey
    THEN GeminiResult(UnavailableReply, << >>, 0)
    ELSE gemini_attempts(query, retries, env, 0, << >>, 0)

greetings == << <<"h","e","l","l","o">>, <<"h","i">>, <<"h","e","y">> >>

farewells == << <<"b","y","e">>, <<"g","o","o","d","b","y","e">>, <<"s","e","e"," ","y","o","u">> >>

thanks == << <<"t","h","a","n","k">>, <<"t","h","a","n","k","s">>, <<"a","p","p","r","e","c","i","a","t","e">> >>

help_words == << <<"h","e","l","p">>, <<"g","u","i","d","e">>, <<"w","h","a","t"," ","c","a","n"," ","y","o","u"," ","d","o">> >>

identity_words == << <<"w","h","o"," ","a","r","e"," ","y","o","u">>, <<"w","h","a","t"," ","a","r","e"," ","y","o","u">> >>

product_keywords ==
    << <<"p","h","o","n","e">>, <<"m","o","b","i","l","e">>, <<"l","a","p","t","o","p">>, <<"c","o","m","p","u","t","e","r">>, <<"h","e","a","d","p","h","o","n","e">>, <<"e","a","r","p","h","o","n","e">>,
       <<"g","a","m","i","n","g">>, <<"s","h","o","w">>, <<"f","i","n","d">>, <<"s","e","a","r","c","h">>, <<"l","o","o","k","i","n","g"," ","f","o","r">>, <<"c","o","m","p","a","r","e">>,
       <<"v","s">>, <<"o","r">>, <<"u","n","d","e","r">>, <<"b","u","d","g","e","t">>, <<"p","r","i","c","e">>, <<"c","o","s","t">>, <<"h","o","w"," ","m","u","c","h">>,
       <<"c","h","e","a","p">>, <<"e","x","p","e","n","s","i","v","e">> >>

GreetingReply ==
    <<"H","e","l","l","o","."," ","H","o","w"," ","m","a","y"," ","I"," ","a","s","s","i","s","t"," ","y","o","u"," ","w","i","t","h"," ","p","r","o","d","u","c","t"," ","s","e","a","r","c","h"," ","o","r"," ","q","u","e","s","t","i","o","n","s"," ","t","o","d","a","y","?">>

FarewellReply ==
    <<"G","o","o","d","b","y","e","."," ","I","f"," ","y","o","u"," ","n","e","e","d"," ","f","u","r","t","h","e","r"," ","a","s","s","i","s","t","a","n","c","e",","," ","p","l","e","a","s","e"," ","a","s","k"," ","a","n","y","t","i","m","e",".">>

ThanksReply ==
    <<"Y","o","u","'","r","e"," ","w","e","l","c","o","m","e","."," ","W","o","u","l","d"," ","y","o","u"," ","l","i","k","e"," ","h","e","l","p"," ","w","i","t","h"," ","a","n","y","t","h","i","n","g"," ","e","l","s","e","?">>

HelpReply ==
    <<"I"," ","c","a","n"," ","h","e","l","p"," ","y","o","u"," ","f","i","n","d"," ","p","r","o","d","u","c","t","s",","," ","f","i","l","t","e","r"," ","b","y"," ","p","r","i","c","e",","," ","o","r"," ","c","o","m","p","a","r","e"," ","i","t","e","m","s","."," ","F","o","r"," ","e","x","a","m","p","l","e",":"," ","'","S","h","o","w"," ","m","e"," ","D","e","l","l"," ","l","a","p","t","o","p","s"," ","w","i","t","h"," ","1","6","G","B"," ","R","A","M"," ","u","n","d","e","r"," ","8","0","0","0","0","'",".">>

IdentityReply ==
    <<"I"," ","a","m"," ","a"," ","p","r","o","d","u","c","t"," ","s","e","a","r","c","h"," ","a","s","s","i","s","t","a","n","t"," ","t","h","a","t"," ","h","e","l","p","s"," ","l","o","c","a","t","e"," ","a","n","d"," ","c","o","m","p","a","r","e"," ","e","l","e","c","t","r","o","n","i","c","s"," ","f","r","o","m"," ","t","h","e"," ","a","v","a","i","l","a","b","l","e"," ","d","a","t","a","s","e","t",".">>

ProductReply ==
    <<"H","e","r","e"," ","a","r","e"," ","t","h","e"," ","m","o","s","t"," ","r","e","l","e","v","a","n","t"," ","p","r","o","d","u","c","t","s"," ","m","a","t","c","h","i","n","g"," ","y","o","u","r"," ","q","u","e","r","y",":">>

\* a variant in which any message with a greeting word is a greeting
classify_greeting_any_length(query_lower) ==
    IF ContainsAny(query_lower, greetings) THEN "Greeting"
    ELSE IF ContainsAny(query_lower, farewells) THEN "Farewell"
    ELSE IF ContainsAny(query_lower, thanks) THEN "Thanks"
    ELSE IF ContainsAny(query_lower, help_words) THEN "HelpRequest"
    ELSE IF ContainsAny(query_lower, identity_words) THEN "IdentityQuestion"
    ELSE IF ContainsAny(query_lower, product_keywords) THEN "ProductQuery"
    ELSE "GeneralOther"

\* a variant in which a help request is passed on as general conversation
classify_help_as_general(query_lower) ==
    IF ContainsAny(query_lower, greetings) /\ Len(split(query_lower)) < 3 THEN "Greeting"
    ELSE IF ContainsAny(query_lower, farewells) THEN "Farewell"
    ELSE IF ContainsAny(query_lower, thanks) THEN "Thanks"
    ELSE IF ContainsAny(query_lower, identity_words) THEN "IdentityQuestion"
    ELSE IF ContainsAny(query_lower, product_keywords) THEN "ProductQuery"
    ELSE "GeneralOther"

\* the branch of generate_chat_response a message takes: the chain of ifs
classify(query_lower) ==
    IF ContainsAny(query_lower, greetings) /\ Len(split(query_lower)) < 3 THEN "Greeting"
    ELSE IF ContainsAny(query_lower, farewells) THEN "Farewell"
    ELSE IF ContainsAny(query_lower, thanks) THEN "Thanks"
    ELSE IF ContainsAny(query_lower, help_words) THEN "HelpRequest"
    ELSE IF ContainsAny(query_lower, identity_words) THEN "IdentityQuestion"
    ELSE IF ContainsAny(query_lower, product_keywords) THEN "ProductQuery"
    ELSE "GeneralOther"

CannedKinds == { "Greeting", "Farewell", "Thanks", "HelpRequest", "IdentityQuestion" }

canned_text(kind) ==
    CASE kind = "Greeting"         -> GreetingReply
      [] kind = "Farewell"         -> FarewellReply
      [] kind = "Thanks"           -> ThanksReply
      [] kind = "HelpRequest"      -> HelpReply
      [] kind = "IdentityQuestion" -> IdentityReply

\* {"type": "general", "response": text}
general_dict(text) ==
    [ keys |-> { "type", "response" }, type |-> "general", response |-> text,
      results |-> << >> ]

\* {"type": "product", "response": ..., "results": results}
product_dict(results) ==
    [ keys |-> { "type", "response", "results" }, type |-> "product",
      response |-> ProductReply, results |-> results ]

\* what generate_chat_response does: it raises or returns value, after the
\* calls it made of retrieve_with_index and get_gemini_response
ChatResult(raised, value, calls) == [raised |-> raised, value |-> value, calls |-> calls]

NoDict == [keys |-> {}, type |-> "none", response |-> << >>, results |-> << >>]

\* a call generate_chat_response made: the function, its query argument and
\* what it gave back
RetrieveCall(query, r) == [fn |-> "retrieve_with_index", query |-> query, result |-> r]

GeminiCall(prompt, g) == [fn |-> "get_gemini_response", query |-> prompt, result |-> g]

\* the f-string given to get_gemini_response when no product was found
no_match_prompt(query) ==
    <<"I"," ","c","o","u","l","d"," ","n","o","t"," ","f","i","n","d"," ","m","a","t","c","h","i","n","g"," ","p","r","o","d","u","c","t","s"," ","i","n"," ","t","h","e"," ","s","t","o","r","e"," ","f","o","r"," ","t","h","e"," ","f","o","l","l","o","w","i","n","g"," ","q","u","e","r","y",":"," ","'">>
    \o query
    \o <<"'","."," ","P","l","e","a","s","e"," ","p","r","o","v","i","d","e"," ","g","e","n","e","r","a","l"," ","g","u","i","d","a","n","c","e"," ","b","a","s","e","d"," ","o","n"," ","p","r","o","d","u","c","t"," ","k","n","o","w","l","e","d","g","e",":"," ">>
    \o query

\* the reply once get_gemini_response has answered g to prompt
gemini_reply(prompt, g, before) ==
    ChatResult(FALSE, general_dict(g.text), Append(before, GeminiCall(prompt, g)))

\* a variant that answers an empty product list instead of falling back
product_branch_no_fallback(query, r, env) ==
    IF r.raised THEN ChatResult(TRUE, NoDict, << RetrieveCall(query, r) >>)
    ELSE ChatResult(FALSE, product_dict(r.hits), << RetrieveCall(query, r) >>)

\* the product branch once retrieve_with_index has given r
product_branch(query, r, env) ==
    IF r.raised THEN ChatResult(TRUE, NoDict, << RetrieveCall(query, r) >>)
    ELSE IF r.hits = << >>
         THEN gemini_reply(no_match_prompt(query),
                           get_gemini_response(no_match_prompt(query), DefaultRetries, env),
                           << RetrieveCall(query, r) >>)
    ELSE ChatResult(FALSE, product_dict(r.hits), << RetrieveCall(query, r) >>)

\* the top_k generate_chat_response asks of retrieve_with_index
ChatTopK == 3

\* generate_chat_response(query, vectorizer, tfidf_matrix, metadata), given
\* the order argsort produces and the environment of the responder
generate_chat_response(query, vectorizer, tfidf_matrix, metadata, order, env) ==
    IF classify(strip(lower(query))) \in CannedKinds
    THEN ChatResult(FALSE, general_dict(canned_text(classify(strip(lower(query))))), << >>)
    ELSE IF classify(strip(lower(query))) = "ProductQuery"
    THEN product_branch(query,
             retrieve_with_index(query, vectorizer, tfidf_matrix, metadata, ChatTopK,
                                 NoneStr, order),
             env)
    ELSE gemini_reply(query, get_gemini_response(query, DefaultRetries, env), << >>)

---------------------------------------------------------------------------
(* Admin authentication and the credential handlers of app/main.py         *)

\* ADMIN_TOKEN of this run, and the tokens a request can carry
ADMIN_TOKEN == <<"s","e","c","r","e","t">>

RequestTokens == { ADMIN_TOKEN, <<"w","r","o","n","g">>, NoneStr }

\* werkzeug's salted hash, as far as check_password_hash can tell: the
\* password it was made from
generate_password_hash(password) == << "pbkdf2", password >>

check_password_hash(pwhash, password) == pwhash = generate_password_hash(password)

\* persist/admin_credentials.json: missing, holding {username, password_hash},
\* or cut off by a failed write
NoCredentialsFile == [state |-> "missing", username |-> NoneStr, password_hash |-> << >>]

CredentialsFile(username, password_hash) ==
    [state |-> "json", username |-> username, password_hash |-> password_hash]

TruncatedCredentialsFile == [state |-> "corrupt", username |-> NoneStr, password_hash |-> << >>]

\* load_admin_credentials(): the dict of the file, or None when the file is
\* missing or json.load raises on it
load_admin_credentials(file) ==
    IF file.state = "json"
    THEN [none |-> FALSE, username |-> file.username, password_hash |-> file.password_hash]
    ELSE [none |-> TRUE, username |-> NoneStr, password_hash |-> << >>]

\* the Authorization header of a request
NoAuthorization == [present |-> FALSE, username |-> NoneStr, password |-> NoneStr]

BasicAuth(username, password) == [present |-> TRUE, username |-> username, password |-> password]

\* _check_basic_auth(): (username, password) or (None, None)
check_basic_auth(req) ==
    IF req.authorization.present /\ ~Falsy(req.authorization.username)
    THEN [u |-> req.authorization.username, p |-> req.authorization.password]
    ELSE [u |-> NoneStr, p |-> NoneStr]

\* Python's a or b
Or(a, b) == IF Falsy(a) THEN b ELSE a

\* req.headers.get('X-Admin-Token') or req.args.get('token') or req.form.get('token')
request_token(req) == Or(Or(req.header_token, req.args_token), req.form_token)

\* bool(token and ADMIN_TOKEN and token == ADMIN_TOKEN)
token_matches(token, admin_token) ==
    ~Falsy(token) /\ ~Falsy(admin_token) /\ token = admin_token

\* the rest of is_admin_authenticated once creds and (u, p) are read
authenticated_with(admin, creds, u, p, token) ==
    IF ~creds.none /\ ~Falsy(creds.username) /\ ~Falsy(u) /\ ~Falsy(p)
    THEN check_password_hash(creds.password_hash, p) /\ u = creds.username
    ELSE IF ~Falsy(admin.ADMIN_USER) /\ ~Falsy(admin.ADMIN_PASS) /\ ~Falsy(u) /\ ~Falsy(p)
    THEN u = admin.ADMIN_USER /\ p = admin.ADMIN_PASS
    ELSE token_matches(token, admin.ADMIN_TOKEN)

\* is_admin_authenticated() for the request req when the admin state is admin:
\* the global ADMIN_TOKEN, the environment's ADMIN_USER and ADMIN_PASS and the
\* files admin_token.txt and admin_credentials.json
is_admin_authenticated(admin, req) ==
    authenticated_with(admin, load_admin_credentials(admin.credentials),
                       check_basic_auth(req).u, check_basic_auth(req).p,
                       request_token(req))

\* no JSON body, and a JSON object with the given username and password
NoJson == [present |-> FALSE, username |-> NoneStr, password |-> NoneStr]

JsonBody(username, password) == [present |-> TRUE, username |-> username, password |-> password]

\* a request that carries at most a token in its X-Admin-Token header
TokenRequest(token) ==
    [ authorization |-> NoAuthorization, header_token |-> token, args_token |-> NoneStr,
      form_token |-> NoneStr, json |-> NoJson ]

\* token mode: no persisted credentials, no ADMIN_USER/ADMIN_PASS
TokenModeAdmin ==
    [ ADMIN_TOKEN |-> ADMIN_TOKEN, ADMIN_USER |-> NoneStr, ADMIN_PASS |-> NoneStr,
      token_file |-> ADMIN_TOKEN, credentials |-> NoCredentialsFile ]

\* how writing a file ends: done, open() raises, or the write raises after
\* open() has emptied the file
WriteOutcomes == { "ok", "open_fails", "write_fails" }

\* save_admin_credentials(username, password_plain): [ok, file]
save_admin_credentials(file, username, password_plain, outcome) ==
    CASE outcome = "ok" ->
           [ok |-> TRUE,
            file |-> CredentialsFile(username, generate_password_hash(password_plain))]
      [] outcome = "open_fails"  -> [ok |-> FALSE, file |-> file]
      [] outcome = "write_fails" -> [ok |-> FALSE, file |-> TruncatedCredentialsFile]

\* what a handler does: the response and the admin state it leaves
Handled(status, body, token, admin) ==
    [status |-> status, body |-> body, token |-> token, admin |-> admin]

\* a variant that has opened the credentials file for writing before it refuses
Forbidden_after_open(admin) ==
    Handled(403, "Forbidden: invalid admin credentials", NoneStr,
            [admin EXCEPT !.credentials = TruncatedCredentialsFile])

Forbidden(admin) == Handled(403, "Forbidden: invalid admin credentials", NoneStr, admin)

\* POST /admin/reset_password
admin_reset_password(admin, req, io) ==
    IF ~is_admin_authenticated(admin, req) THEN Forbidden(admin)
    ELSE IF ~req.json.present THEN Handled(400, "Bad Request", NoneStr, admin)
    ELSE IF Falsy(req.json.username) \/ Falsy(req.json.password)
    THEN Handled(400, "username and password are required", NoneStr, admin)
    ELSE IF io.credentials_write = "ok"
    THEN Handled(200, "credentials updated", NoneStr,
                 [admin EXCEPT !.credentials =
                     save_admin_credentials(admin.credentials, req.json.username,
                                            req.json.password, io.credentials_write).file])
    ELSE Handled(500, "failed to save credentials", NoneStr,
                 [admin EXCEPT !.credentials =
                     save_admin_credentials(admin.credentials, req.json.username,
                                            req.json.password, io.credentials_write).file])

\* secrets.token_urlsafe(24): a token not used before
NewToken == <<"r","o","t","a","t","e","d">>

\* POST /admin/rotate
admin_rotate(admin, req, io) ==
    IF ~is_admin_authenticated(admin, req) THEN Forbidden(admin)
    ELSE IF io.token_write = "open_fails"
    THEN Handled(500, "error", NoneStr, [admin EXCEPT !.ADMIN_TOKEN = NewToken])
    ELSE IF io.token_write = "write_fails"
    THEN Handled(500, "error", NoneStr,
                 [admin EXCEPT !.ADMIN_TOKEN = NewToken, !.token_file = << >>])
    ELSE IF ~Falsy(req.json.username) /\ ~Falsy(req.json.password)
    THEN Handled(200, "ok", NewToken,
                 [admin EXCEPT !.ADMIN_TOKEN = NewToken, !.token_file = NewToken,
                               !.credentials =
                     save_admin_credentials(admin.credentials, req.json.username,
                                            req.json.password, io.credentials_write).file])
    ELSE Handled(200, "ok", NewToken,
                 [admin EXCEPT !.ADMIN_TOKEN = NewToken, !.token_file = NewToken])
---------------------------------------------------------------------------
(* The data directory: the catalogs the model puts on disk                 *)

CsvFile(name, columns, rows) ==
    [name |-> name, readable |-> TRUE, columns |-> columns, rows |-> rows]

\* a file pd.read_csv raises on
BadFile(name) == [name |-> name, readable |-> FALSE, columns |-> << >>, rows |-> << >>]

\* two laptops (one priced 0) and two mobiles (one price unparsable, one missing)
DiskA ==
    [ exists |-> TRUE,
      files  |-> << CsvFile(<<"l","a","p","t","o","p",".","c","s","v">>, << <<"N","a","m","e">>, <<"P","r","i","c","e">> >>,
                            << << <<"a","c","m","e">>, <<"5","0","0">> >>,
                               << <<"a","c","m","e">>, <<"0">> >> >>),
                    CsvFile(<<"n","o","t","e","s",".","t","x","t">>, << <<"N","a","m","e">> >>, << << <<"a","c","m","e">> >> >>),
                    CsvFile(<<"m","o","b","i","l","e",".","c","s","v">>, << <<" ","N","a","m","e">>, <<"S","a","l","e"," ","P","r","i","c","e">> >>,
                            << << <<"a","c","m","e">>, <<"t","b","d">> >>,
                               << <<"b","o","l","t">>, NaN >> >>) >> ]

\* the catalog after an edit: three mobiles
DiskB ==
    [ exists |-> TRUE,
      files  |-> << CsvFile(<<"m","o","b","i","l","e",".","c","s","v">>, << <<"N","a","m","e">>, <<"p","r","i","c","e">> >>,
                            << << <<"b","o","l","t">>, <<"3","0","0">> >>,
                               << <<"b","o","l","t">>, <<"1",".","2",".","3">> >>,
                               << <<"a","c","m","e">>, <<"$","4","9",".","5","0">> >> >>) >> ]

\* one file of the directory cannot be read
DiskBroken ==
    [ exists |-> TRUE,
      files  |-> << CsvFile(<<"l","a","p","t","o","p",".","c","s","v">>, << <<"N","a","m","e">>, <<"P","r","i","c","e">> >>,
                            << << <<"a","c","m","e">>, <<"5","0","0">> >>,
                               << <<"a","c","m","e">>, <<"0">> >>,
                               << <<"b","o","l","t">>, <<"9","0","0">> >> >>),
                    BadFile(<<"m","o","b","i","l","e",".","c","s","v">>) >> ]

\* a corpus too small to index: a single record
DiskTiny ==
    [ exists |-> TRUE,
      files  |-> << CsvFile(<<"l","a","p","t","o","p",".","c","s","v">>, << <<"N","a","m","e">>, <<"P","r","i","c","e">> >>,
                            << << <<"a","c","m","e">>, <<"5","0","0">> >> >>) >> ]

DiskStates == { DiskA, DiskB, DiskBroken, DiskTiny }

---------------------------------------------------------------------------
(* Module start-up of app/main.py (lines 74-117)                           *)

Absent == [present |-> FALSE, value |-> << >>]

File(v) == [present |-> TRUE, value |-> v]

NoPersist == [vec |-> Absent, mat |-> Absent, meta |-> Absent, corpus |-> Absent]

\* os.path.exists of the four artifacts
all_persisted(p) ==
    p.vec.present /\ p.mat.present /\ p.meta.present /\ p.corpus.present

\* The results of load_data() or {}, build_corpus_from_data and
\* build_tfidf_index on the catalogs of the model, computed once; the
\* actions look the results up
LoadResults == { [arg |-> d, val |-> load_data_or_empty(d)] : d \in DiskStates }

loaded(d) == (CHOOSE e \in LoadResults : e.arg = d).val

CorpusResults == { [arg |-> e.val, val |-> build_corpus_from_data(e.val)] : e \in LoadResults }

built_from(data) == (CHOOSE e \in CorpusResults : e.arg = data).val

IndexResults ==
    { [arg |-> e.val.corpus, val |-> build_tfidf_index(e.val.corpus)] : e \in CorpusResults }

index_of(corpus) == (CHOOSE e \in IndexResults : e.arg = corpus).val

\* The globals and the persisted files after the module body ran with
\* persisted files p (joblib.load and joblib.dump are taken to succeed):
\* data, built and index are the results of lines 76, 77 and 106
startup_with(p, data, built, index) ==
    IF all_persisted(p)
    THEN [ DATA |-> data, CORPUS |-> p.corpus.value, METADATA |-> p.meta.value,
           VECTORIZER |-> p.vec.value, TFIDF_MATRIX |-> p.mat.value,
           persist |-> p ]
    ELSE [ DATA |-> data, CORPUS |-> built.corpus, METADATA |-> built.metadata,
           VECTORIZER |-> index.vectorizer, TFIDF_MATRIX |-> index.tfidf_matrix,
           persist |-> IF ~index.vectorizer.none /\ ~index.tfidf_matrix.none
                       THEN [ vec |-> File(index.vectorizer),
                              mat |-> File(index.tfidf_matrix),
                              meta |-> File(built.metadata),
                              corpus |-> File(built.corpus) ]
                       ELSE p ]

\* the module body on disk d with persisted files p
startup(d, p) ==
    startup_with(p, loaded(d), built_from(loaded(d)), index_of(built_from(loaded(d)).corpus))

---------------------------------------------------------------------------
(* Request threads                                                         *)

\* the worker threads that can run admin_rebuild at the same time
Workers == { "w1", "w2" }

\* how many times the catalog on disk is edited
MaxChanges == 1

\* how many /admin/rebuild requests are served
MaxRebuilds == 2

\* how many times the process is restarted
MaxRestarts == 1

NoResponse == [status |-> 0, body |-> "none"]

IdleLocals == [arg |-> << >>, prior |-> << >>, overlapped |-> FALSE, failed |-> FALSE]

\* the (VECTORIZER, TFIDF_MATRIX, METADATA) a request is answered from
served == [vectorizer |-> VECTORIZER, tfidf_matrix |-> TFIDF_MATRIX, metadata |-> METADATA]

Busy(w) == pc[w] # "idle"

\* the queries the model sends to GET /search
SearchQueries == { <<"a","c","m","e">> }

\* top_k=min(1000, len(METADATA))
MaxTopKSearch == 1000

\* the response for the hits r of retrieve_with_index: the handler's except
\* clause turns an exception into status 500
search_response(r) ==
    IF r.raised THEN [status |-> 500, results |-> << >>]
    ELSE [status |-> 200, results |-> [i \in DOMAIN r.hits |-> r.hits[i].data]]

\* GET /search?q=query with the defaults for every other parameter, answered
\* from snapshot s with argsort order `order`.  With min_price = 0 and
\* max_price = inf the handler's own price filter keeps every hit, and the
\* first page (per_page = 10) holds them all.
api_search(query, s, order) ==
    IF query = << >> \/ s.vectorizer.none \/ s.tfidf_matrix.none
    THEN [status |-> 400, results |-> << >>]
    ELSE search_response(
             retrieve_with_index(query, s.vectorizer, s.tfidf_matrix, s.metadata,
                                 Min2(MaxTopKSearch, Len(s.metadata)), NoneStr, order))

\* every answer GET /search can give from snapshot s
search_answers(query, s) ==
    { api_search(query, s, order) :
        order \in retrieve_orders(query, s.vectorizer, s.tfidf_matrix) }

\* the (VECTORIZER, TFIDF_MATRIX, METADATA) the globals can hold, and the
\* answers GET /search gives from each, computed once
ServedValues ==
    { [vectorizer |-> i.val.vectorizer, tfidf_matrix |-> j.val.tfidf_matrix,
       metadata |-> c.val.metadata] :
         i \in IndexResults, j \in IndexResults, c \in CorpusResults }

SearchResults ==
    { [arg |-> << q, s >>, val |-> search_answers(q, s)] :
         q \in SearchQueries, s \in ServedValues }

answers(q, s) == (CHOOSE e \in SearchResults : e.arg = << q, s >>).val

NoObservation == [status |-> 0, count |-> 0]

ServerInit ==
    /\ disk = DiskA
    /\ LET s == startup(DiskA, NoPersist)
       IN  /\ DATA = s.DATA
           /\ CORPUS = s.CORPUS
           /\ METADATA = s.METADATA
           /\ VECTORIZER = s.VECTORIZER
           /\ TFIDF_MATRIX = s.TFIDF_MATRIX
           /\ persist = s.persist
    /\ pc = [w \in Workers |-> "idle"]
    /\ loc = [w \in Workers |-> IdleLocals]
    /\ resp = NoResponse
    /\ qobs = NoObservation
    /\ nchanges = 0
    /\ nrebuilds = 0
    /\ nrestarts = 0

\* an administrator edits the csv files
DataChange ==
    /\ nchanges < MaxChanges
    /\ \E d \in DiskStates \ {disk} : disk' = d
    /\ nchanges' = nchanges + 1
    /\ UNCHANGED << persist, DATA, CORPUS, METADATA, VECTORIZER, TFIDF_MATRIX,
                    pc, loc, resp, qobs, nrebuilds, nrestarts >>
    /\ UNCHANGED call_vars

\* the process is stopped between requests and started again
Restart ==
    /\ nrestarts < MaxRestarts
    /\ \A w \in Workers : ~Busy(w)
    /\ LET s == startup(disk, persist)
       IN  /\ DATA' = s.DATA
           /\ CORPUS' = s.CORPUS
           /\ METADATA' = s.METADATA
           /\ VECTORIZER' = s.VECTORIZER
           /\ TFIDF_MATRIX' = s.TFIDF_MATRIX
           /\ persist' = s.persist
    /\ nrestarts' = nrestarts + 1
    /\ resp' = NoResponse
    /\ qobs' = NoObservation
    /\ UNCHANGED << disk, pc, loc, nchanges, nrebuilds >>
    /\ UNCHANGED call_vars

\* GET /search: the handler reads the three globals and answers from them
Search ==
    /\ \E q \in SearchQueries :
         \E a \in answers(q, served) :
            qobs' = [status |-> a.status, count |-> Len(a.results)]
    /\ UNCHANGED << disk, persist, DATA, CORPUS, METADATA, VECTORIZER, TFIDF_MATRIX,
                    pc, loc, resp, nchanges, nrebuilds, nrestarts >>
    /\ UNCHANGED call_vars

\* POST /admin/rebuild without valid credentials: 403, nothing else happens
AdminRebuildForbidden(w) ==
    /\ pc[w] = "idle"
    /\ \E token \in RequestTokens : ~is_admin_authenticated(TokenModeAdmin, TokenRequest(token))
    /\ resp' = [status |-> 403, body |-> "forbidden"]
    /\ UNCHANGED << disk, persist, DATA, CORPUS, METADATA, VECTORIZER, TFIDF_MATRIX,
                    pc, loc, qobs, nchanges, nrebuilds, nrestarts >>
    /\ UNCHANGED call_vars

\* POST /admin/rebuild with valid credentials enters the try block
AdminRebuildStart(w) ==
    /\ pc[w] = "idle"
    /\ nrebuilds < MaxRebuilds
    /\ \E token \in RequestTokens : is_admin_authenticated(TokenModeAdmin, TokenRequest(token))
    /\ pc' = [pc EXCEPT ![w] = "load"]
    /\ loc' = [v \in Workers |->
                 IF v = w
                 THEN [ arg |-> << >>, prior |-> served, failed |-> FALSE,
                        overlapped |-> \E u \in Workers \ {w} : Busy(u) ]
                 ELSE IF Busy(v) THEN [loc[v] EXCEPT !.overlapped = TRUE]
                 ELSE loc[v]]
    /\ nrebuilds' = nrebuilds + 1
    /\ UNCHANGED << disk, persist, DATA, CORPUS, METADATA, VECTORIZER, TFIDF_MATRIX,
                    resp, qobs, nchanges, nrestarts >>
    /\ UNCHANGED call_vars

\* DATA = search_engine.load_data() or {}
RebuildLoad(w) ==
    /\ pc[w] = "load"
    /\ DATA' = loaded(disk)
    /\ pc' = [pc EXCEPT ![w] = "corpus_call"]
    /\ UNCHANGED << disk, persist, CORPUS, METADATA, VECTORIZER, TFIDF_MATRIX,
                    loc, resp, qobs, nchanges, nrebuilds, nrestarts >>
    /\ UNCHANGED call_vars

\* build_corpus_from_data(DATA): the argument is read, the call starts
RebuildCorpusCall(w) ==
    /\ pc[w] = "corpus_call"
    /\ loc' = [loc EXCEPT ![w].arg = DATA]
    /\ pc' = [pc EXCEPT ![w] = "corpus_store"]
    /\ UNCHANGED << disk, persist, DATA, CORPUS, METADATA, VECTORIZER, TFIDF_MATRIX,
                    resp, qobs, nchanges, nrebuilds, nrestarts >>
    /\ UNCHANGED call_vars

\* CORPUS, METADATA = <the result>: the two names are stored in one step
RebuildCorpusStore(w) ==
    /\ pc[w] = "corpus_store"
    /\ LET built == built_from(loc[w].arg)
       IN  /\ CORPUS' = built.corpus
           /\ METADATA' = built.metadata
    /\ pc' = [pc EXCEPT ![w] = "index_call"]
    /\ UNCHANGED << disk, persist, DATA, VECTORIZER, TFIDF_MATRIX,
                    loc, resp, qobs, nchanges, nrebuilds, nrestarts >>
    /\ UNCHANGED call_vars

\* build_tfidf_index(CORPUS): the argument is read, the call starts
RebuildIndexCall(w) ==
    /\ pc[w] = "index_call"
    /\ loc' = [loc EXCEPT ![w].arg = CORPUS]
    /\ pc' = [pc EXCEPT ![w] = "index_store"]
    /\ UNCHANGED << disk, persist, DATA, CORPUS, METADATA, VECTORIZER, TFIDF_MATRIX,
                    resp, qobs, nchanges, nrebuilds, nrestarts >>
    /\ UNCHANGED call_vars

\* VECTORIZER, TFIDF_MATRIX = <the result>, (None, None) included: the two
\* names are stored in one step
RebuildIndexStore(w) ==
    /\ pc[w] = "index_store"
    /\ LET index == index_of(loc[w].arg)
       IN  /\ VECTORIZER' = index.vectorizer
           /\ TFIDF_MATRIX' = index.tfidf_matrix
           /\ loc' = [loc EXCEPT ![w].failed = index.vectorizer.none]
    /\ pc' = [pc EXCEPT ![w] = "check"]
    /\ UNCHANGED << disk, persist, DATA, CORPUS, METADATA,
                    resp, qobs, nchanges, nrebuilds, nrestarts >>
    /\ UNCHANGED call_vars

\* if VECTORIZER is not None and TFIDF_MATRIX is not None:
RebuildCheck(w) ==
    /\ pc[w] = "check"
    /\ pc' = [pc EXCEPT ![w] = IF ~VECTORIZER.none /\ ~TFIDF_MATRIX.none
                                THEN "dump_vec" ELSE "respond"]
    /\ UNCHANGED << disk, persist, DATA, CORPUS, METADATA, VECTORIZER, TFIDF_MATRIX,
                    loc, resp, qobs, nchanges, nrebuilds, nrestarts >>
    /\ UNCHANGED call_vars

\* joblib.dump(VECTORIZER, VECTORIZER_PATH)
RebuildDumpVectorizer(w) ==
    /\ pc[w] = "dump_vec"
    /\ persist' = [persist EXCEPT !.vec = File(VECTORIZER)]
    /\ pc' = [pc EXCEPT ![w] = "dump_mat"]
    /\ UNCHANGED << disk, DATA, CORPUS, METADATA, VECTORIZER, TFIDF_MATRIX,
                    loc, resp, qobs, nchanges, nrebuilds, nrestarts >>
    /\ UNCHANGED call_vars

\* joblib.dump(TFIDF_MATRIX, TFIDF_MATRIX_PATH)
RebuildDumpMatrix(w) ==
    /\ pc[w] = "dump_mat"
    /\ persist' = [persist EXCEPT !.mat = File(TFIDF_MATRIX)]
    /\ pc' = [pc EXCEPT ![w] = "dump_meta"]
    /\ UNCHANGED << disk, DATA, CORPUS, METADATA, VECTORIZER, TFIDF_MATRIX,
                    loc, resp, qobs, nchanges, nrebuilds, nrestarts >>
    /\ UNCHANGED call_vars

\* joblib.dump(METADATA, METADATA_PATH)
RebuildDumpMetadata(w) ==
    /\ pc[w] = "dump_meta"
    /\ persist' = [persist EXCEPT !.meta = File(METADATA)]
    /\ pc' = [pc EXCEPT ![w] = "dump_corpus"]
    /\ UNCHANGED << disk, DATA, CORPUS, METADATA, VECTORIZER, TFIDF_MATRIX,
                    loc, resp, qobs, nchanges, nrebuilds, nrestarts >>
    /\ UNCHANGED call_vars

\* joblib.dump(CORPUS, CORPUS_PATH)
RebuildDumpCorpus(w) ==
    /\ pc[w] = "dump_corpus"
    /\ persist' = [persist EXCEPT !.corpus = File(CORPUS)]
    /\ pc' = [pc EXCEPT ![w] = "respond"]
    /\ UNCHANGED << disk, DATA, CORPUS, METADATA, VECTORIZER, TFIDF_MATRIX,
                    loc, resp, qobs, nchanges, nrebuilds, nrestarts >>
    /\ UNCHANGED call_vars

\* return jsonify({'status': 'ok', 'message': 'index rebuilt', ...})
RebuildRespond(w) ==
    /\ pc[w] = "respond"
    /\ resp' = [status |-> 200, body |-> "index rebuilt"]
    /\ pc' = [pc EXCEPT ![w] = "idle"]
    /\ loc' = [loc EXCEPT ![w] = IdleLocals]
    /\ UNCHANGED << disk, persist, DATA, CORPUS, METADATA, VECTORIZER, TFIDF_MATRIX,
                    qobs, nchanges, nrebuilds, nrestarts >>
    /\ UNCHANGED call_vars

AdminRebuild(w) ==
    \/ AdminRebuildForbidden(w)
    \/ AdminRebuildStart(w)
    \/ RebuildLoad(w)
    \/ RebuildCorpusCall(w)
    \/ RebuildCorpusStore(w)
    \/ RebuildIndexCall(w)
    \/ RebuildIndexStore(w)
    \/ RebuildCheck(w)
    \/ RebuildDumpVectorizer(w)
    \/ RebuildDumpMatrix(w)
    \/ RebuildDumpMetadata(w)
    \/ RebuildDumpCorpus(w)
    \/ RebuildRespond(w)

---------------------------------------------------------------------------
(* The server: start-up, then requests, edits of the data and restarts     *)

\* no direct call of a search_engine function is in progress
CallIdle ==
    /\ fn = "none"
    /\ arg = [query |-> << >>]
    /\ ret = [value |-> << >>]

Init == ServerInit /\ CallIdle

Next ==
    \/ DataChange
    \/ Restart
    \/ Search
    \/ \E w \in Workers : AdminRebuild(w)

Spec == Init /\ [][Next]_vars

---------------------------------------------------------------------------
(* Direct calls of parse_price_constraints                                 *)

\* every text made of at most n pieces
RECURSIVE Concats(_, _)
Concats(pieces, n) ==
    IF n = 0 THEN { << >> }
    ELSE LET shorter == Concats(pieces, n - 1)
         IN  shorter \cup { s \o p : s \in shorter, p \in pieces }

ParsePieces ==
    { <<"b","e","t","w","e","e","n"," ","1","2"," ">>, <<"a","n","d"," ","5">>, <<"7","-","9"," ">>, <<"U","n","d","e","r"," ","7"," ">>, <<"o","v","e","r"," ","5"," ">>, <<"m","a","x","i","m","u","m"," ">>,
      <<"d","i","s","c">>, << "rupee" >>, <<"1",",","2">>, <<",">>, <<"-">>, <<" ">> }

\* how many pieces a query given to parse_price_constraints is made of
MaxParsePieces == 3

ParseQueries == Concats(ParsePieces, MaxParsePieces)

InitParse ==
    /\ ServerInit
    /\ fn = "none"
    /\ arg \in { [query |-> q] : q \in ParseQueries }
    /\ ret = [value |-> << >>]

CallParsePriceConstraints ==
    /\ fn = "none"
    /\ fn' = "parse_price_constraints"
    /\ ret' = [value |-> parse_price_constraints(arg.query)]
    /\ UNCHANGED << arg, server_vars >>

NextParse == CallParsePriceConstraints

SpecParse == InitParse /\ [][NextParse]_vars

---------------------------------------------------------------------------
(* Direct calls of retrieve_with_index                                     *)

\* the index and metadata a complete build gives for the catalog on disk d
snapshot_of(d) ==
    LET built == build_corpus_from_data(load_data_or_empty(d))
        index == build_tfidf_index(built.corpus)
    IN  [ vectorizer |-> index.vectorizer, tfidf_matrix |-> index.tfidf_matrix,
          metadata |-> built.metadata ]

SnapshotA == snapshot_of(DiskA)

SnapshotB == snapshot_of(DiskB)

RetrievePieces ==
    { <<"l","a","p","t","o","p">>, <<"m","o","b","i","l","e">>, <<"a","c","m","e">>, <<" ","a","c","m","e">>, <<"b","o","l","t">>,
      <<" ","u","n","d","e","r"," ","0">>, <<" ","u","n","d","e","r"," ","1","0","0">>, <<" ","a","b","o","v","e"," ","1","0","0">> }

\* how many pieces a query given to retrieve_with_index is made of
MaxRetrievePieces == 2

RetrieveQueries == Concats(RetrievePieces, MaxRetrievePieces)

\* the largest top_k of a call
MaxTopK == 2

CategoryFilters == { NoneStr, << >>, <<"l","a","p","t","o","p">>, <<"m","o","b","i","l","e">> }

InitRetrieve ==
    /\ ServerInit
    /\ fn = "none"
    /\ arg \in { [query |-> q, top_k |-> k, category_filter |-> c, snapshot |-> s] :
                   q \in RetrieveQueries, k \in 0..MaxTopK, c \in CategoryFilters,
                   s \in { SnapshotA, SnapshotB } }
    /\ ret = [value |-> << >>]

CallRetrieveWithIndex ==
    /\ fn = "none"
    /\ fn' = "retrieve_with_index"
    /\ \E order \in retrieve_orders(arg.query, arg.snapshot.vectorizer,
                                    arg.snapshot.tfidf_matrix) :
          ret' = [value |-> retrieve_with_index(arg.query, arg.snapshot.vectorizer,
                                arg.snapshot.tfidf_matrix, arg.snapshot.metadata,
                                arg.top_k, arg.category_filter, order)]
    /\ UNCHANGED << arg, server_vars >>

NextRetrieve == CallRetrieveWithIndex

SpecRetrieve == InitRetrieve /\ [][NextRetrieve]_vars


---------------------------------------------------------------------------
(* Direct calls of generate_chat_response                                  *)

ChatPieces ==
    { <<"H","i">>, <<" ","t","h","e","r","e"," ","f","r","i","e","n","d">>, <<"B","y","e"," ">>, <<"t","h","a","n","k","s"," ">>, <<"h","e","l","p"," ">>, <<"w","h","o"," ","a","r","e"," ","y","o","u"," ">>,
      <<"l","a","p","t","o","p"," ">>, <<"f","i","n","d"," ">>, <<"u","n","d","e","r"," ",",">> }

\* how many pieces a message given to generate_chat_response is made of
MaxChatPieces == 2

ChatMessages == Concats(ChatPieces, MaxChatPieces)

\* the text the responder generates when it answers
GeneratedText == <<"S","u","r","e",".">>

ApiKeys == { NoneStr, DummyKey, <<"k","e","y">> }

\* what the attempts of one call meet: an attempt follows only a failed one
AttemptRuns ==
    { a \in UNION { [1..n -> AttemptOutcomes] : n \in 1..DefaultRetries } :
        /\ \A i \in 1..(Len(a) - 1) : a[i] \in { "no_model", "raise" }
        /\ Len(a) = DefaultRetries \/ a[Len(a)] \in { "empty", "text" } }

\* the environments of the responder: the key and what each attempt meets
ResponderEnvs ==
    { [api_key |-> k, attempts |-> a, text |-> GeneratedText] :
        k \in ApiKeys, a \in AttemptRuns }

\* the orders argsort can produce in this call: only a product query sorts
chat_orders(query, snapshot) ==
    IF classify(strip(lower(query))) = "ProductQuery"
    THEN retrieve_orders(query, snapshot.vectorizer, snapshot.tfidf_matrix)
    ELSE { << >> }

\* the server before any index is built
NoIndexSnapshot == [vectorizer |-> NoVectorizer, tfidf_matrix |-> NoMatrix, metadata |-> << >>]

InitChat ==
    /\ ServerInit
    /\ fn = "none"
    /\ arg \in { [query |-> q, snapshot |-> s, env |-> e] :
                   q \in ChatMessages, s \in { SnapshotA, NoIndexSnapshot },
                   e \in ResponderEnvs }
    /\ ret = [value |-> << >>]

CallGenerateChatResponse ==
    /\ fn = "none"
    /\ fn' = "generate_chat_response"
    /\ \E order \in chat_orders(arg.query, arg.snapshot) :
          ret' = [value |-> generate_chat_response(arg.query, arg.snapshot.vectorizer,
                                arg.snapshot.tfidf_matrix, arg.snapshot.metadata,
                                order, arg.env)]
    /\ UNCHANGED << arg, server_vars >>

NextChat == CallGenerateChatResponse

SpecChat == InitChat /\ [][NextChat]_vars

---------------------------------------------------------------------------
(* Single requests to the admin endpoints                                  *)

\* the password hash persisted for the user admin
AdminHash == generate_password_hash(<<"p","w">>)

\* the admin states a request can meet
AdminStates ==
    { [ ADMIN_TOKEN |-> t, ADMIN_USER |-> e[1], ADMIN_PASS |-> e[2],
        token_file |-> IF t = NoneStr THEN << >> ELSE t, credentials |-> c ] :
        t \in { ADMIN_TOKEN, NoneStr },
        e \in { << NoneStr, NoneStr >>, << <<"r","o","o","t">>, <<"r","o","o","t","p","w">> >>, << <<"r","o","o","t">>, NoneStr >> },
        c \in { NoCredentialsFile, CredentialsFile(<<"a","d","m","i","n">>, AdminHash) } }

Authorizations ==
    { NoAuthorization, BasicAuth(<<"a","d","m","i","n">>, <<"p","w">>), BasicAuth(<<"a","d","m","i","n">>, <<"r","o","o","t","p","w">>),
      BasicAuth(<<"r","o","o","t">>, <<"r","o","o","t","p","w">>), BasicAuth(<<"r","o","o","t">>, << >>) }

JsonBodies ==
    { NoJson, JsonBody(NoneStr, NoneStr), JsonBody(<<"e","v","e">>, <<"e","v","e","p","w">>),
      JsonBody(<<"e","v","e">>, << >>) }

AdminRequests ==
    { [ authorization |-> a, header_token |-> h, args_token |-> q, form_token |-> NoneStr,
        json |-> j ] :
        a \in Authorizations, h \in RequestTokens, q \in { NoneStr, ADMIN_TOKEN },
        j \in JsonBodies }

InitAdmin ==
    /\ ServerInit
    /\ fn = "none"
    /\ arg \in { [admin |-> s, req |-> r, io |-> [token_write |-> tw, credentials_write |-> cw]] :
                   s \in AdminStates, r \in AdminRequests,
                   tw \in WriteOutcomes, cw \in WriteOutcomes }
    /\ ret = [value |-> << >>]

\* admin_rebuild run from its first line to its last with no other request
\* in between: the globals and the persisted files it leaves
rebuild_alone(d, p) ==
    [ startup(d, NoPersist) EXCEPT
        !.persist = IF all_persisted(startup(d, NoPersist).persist)
                    THEN startup(d, NoPersist).persist ELSE p ]

\* POST /admin/rebuild
CallAdminRebuild ==
    /\ fn = "none"
    /\ fn' = "admin_rebuild"
    /\ IF ~is_admin_authenticated(arg.admin, arg.req)
       THEN /\ ret' = [value |-> Forbidden(arg.admin)]
            /\ UNCHANGED << DATA, CORPUS, METADATA, VECTORIZER, TFIDF_MATRIX, persist >>
       ELSE /\ ret' = [value |-> Handled(200, "index rebuilt", NoneStr, arg.admin)]
            /\ DATA' = rebuild_alone(disk, persist).DATA
            /\ CORPUS' = rebuild_alone(disk, persist).CORPUS
            /\ METADATA' = rebuild_alone(disk, persist).METADATA
            /\ VECTORIZER' = rebuild_alone(disk, persist).VECTORIZER
            /\ TFIDF_MATRIX' = rebuild_alone(disk, persist).TFIDF_MATRIX
            /\ persist' = rebuild_alone(disk, persist).persist
    /\ UNCHANGED << arg, disk, pc, loc, resp, qobs, nchanges, nrebuilds, nrestarts >>

\* POST /admin/rotate
CallAdminRotate ==
    /\ fn = "none"
    /\ fn' = "admin_rotate"
    /\ ret' = [value |-> admin_rotate(arg.admin, arg.req, arg.io)]
    /\ UNCHANGED << arg, server_vars >>

\* POST /admin/reset_password
CallAdminResetPassword ==
    /\ fn = "none"
    /\ fn' = "admin_reset_password"
    /\ ret' = [value |-> admin_reset_password(arg.admin, arg.req, arg.io)]
    /\ UNCHANGED << arg, server_vars >>

NextAdmin ==
    \/ CallAdminRebuild
    \/ CallAdminRotate
    \/ CallAdminResetPassword

SpecAdmin == InitAdmin /\ [][NextAdmin]_vars

---------------------------------------------------------------------------
(* POST /search                                                            *)

\* a value of the JSON body given to int(): missing key, an integer, or
\* something int() raises on (null, a word)
Missing == [kind |-> "missing", val |-> 0]

JsonInt(n) == [kind |-> "int", val |-> n]

NotAnInt == [kind |-> "bad", val |-> 0]

\* int(payload.get(key, default)): [raised, val]
int_or_default(v, default) ==
    CASE v.kind = "missing" -> [raised |-> FALSE, val |-> default]
      [] v.kind = "int"     -> [raised |-> FALSE, val |-> v.val]
      [] v.kind = "bad"     -> [raised |-> TRUE, val |-> 0]

\* the default of page_size in the POST branch
DefaultPageSize == 20

\* a response of /search: the status and the keys of the JSON body
SearchReply(status, keys) == [status |-> status, keys |-> keys]

\* category in DATA
has_category(data, category) == \E i \in DOMAIN data : data[i].category = category

\* the POST branch of api_search for the JSON body payload while the global
\* DATA is data.  search_engine has no search_products, so the call at the
\* end of the branch raises AttributeError; every exception raised in the
\* handler is answered 500 by its except clause.
api_search_post(payload, data) ==
    IF ~payload.present THEN SearchReply(500, { "error" })
    ELSE IF int_or_default(payload.page, 1).raised THEN SearchReply(500, { "error" })
    ELSE IF int_or_default(payload.page_size, DefaultPageSize).raised
    THEN SearchReply(500, { "error" })
    ELSE IF Falsy(payload.category) \/ ~has_category(data, payload.category)
    THEN SearchReply(400, { "error" })
    ELSE SearchReply(500, { "error" })

\* the JSON bodies of the model; q and per_page are keys the branch never reads
NoPayload ==
    [ present |-> FALSE, q |-> NoneStr, category |-> NoneStr, page |-> Missing,
      page_size |-> Missing, per_page |-> Missing ]

SearchPayloads ==
    { NoPayload } \cup
    { [ present |-> TRUE, q |-> q, category |-> c, page |-> p, page_size |-> s,
        per_page |-> pp ] :
        q \in { NoneStr, <<"g","a","m","i","n","g"," ","l","a","p","t","o","p">> },
        c \in { NoneStr, << >>, <<"l","a","p","t","o","p">>, <<"m","o","b","i","l","e">>, <<"t","a","b","l","e","t">> },
        p \in { Missing, JsonInt(1), JsonInt(0), NotAnInt },
        s \in { Missing, JsonInt(5), NotAnInt },
        pp \in { Missing, JsonInt(5) } }

InitSearchPost ==
    /\ ServerInit
    /\ fn = "none"
    /\ arg \in { [payload |-> p] : p \in SearchPayloads }
    /\ ret = [value |-> << >>]

CallApiSearchPost ==
    /\ fn = "none"
    /\ fn' = "api_search"
    /\ ret' = [value |-> api_search_post(arg.payload, DATA)]
    /\ UNCHANGED << arg, server_vars >>

NextSearchPost == CallApiSearchPost

SpecSearchPost == InitSearchPost /\ [][NextSearchPost]_vars

---------------------------------------------------------------------------
(* POST /chat                                                              *)

\* a response of /chat: the status, and the JSON body with its keys
ChatReply(status, body) == [status |-> status, keys |-> body.keys, body |-> body]

\* {'error': ...}
ErrorDict == [keys |-> { "error" }, type |-> "none", response |-> << >>, results |-> << >>]

\* payload.get('message') or payload.get('query', '')
chat_query(payload) == Or(payload.message, payload.query)

\* jsonify(response) for the result r of generate_chat_response; an exception
\* is answered 500 by the handler's except clause
chat_response(r) == IF r.raised THEN ChatReply(500, ErrorDict) ELSE ChatReply(200, r.value)

\* api_chat for the JSON body payload, answered from the globals s, given the
\* order argsort produces and the environment of the responder
api_chat(payload, s, order, env) ==
    IF ~payload.present THEN ChatReply(500, ErrorDict)
    ELSE IF Falsy(chat_query(payload)) THEN ChatReply(400, ErrorDict)
    ELSE chat_response(generate_chat_response(chat_query(payload), s.vectorizer,
                                              s.tfidf_matrix, s.metadata, order, env))

\* the JSON bodies of the model
NoChatPayload == [present |-> FALSE, message |-> NoneStr, query |-> NoneStr]

ChatPayloads ==
    { NoChatPayload } \cup
    { [present |-> TRUE, message |-> m, query |-> q] :
        m \in { NoneStr, << >>, <<"W","h","a","t"," ","a","r","e"," ","t","h","e"," ","b","e","s","t"," ","l","a","p","t","o","p","s","?">> } \cup ChatPieces,
        q \in { NoneStr, <<"H","i">> } }

InitApiChat ==
    /\ ServerInit
    /\ fn = "none"
    /\ arg \in { [payload |-> p, env |-> e] : p \in ChatPayloads, e \in ResponderEnvs }
    /\ ret = [value |-> << >>]

CallApiChat ==
    /\ fn = "none"
    /\ fn' = "api_chat"
    /\ \E order \in chat_orders(chat_query(arg.payload), served) :
          ret' = [value |-> api_chat(arg.payload, served, order, arg.env)]
    /\ UNCHANGED << arg, server_vars >>

NextApiChat == CallApiChat

SpecApiChat == InitApiChat /\ [][NextApiChat]_vars

---------------------------------------------------------------------------
(* Two independent builds of the same catalog, each answering one query    *)

\* sims of a query against the index of snapshot s (empty without an index)
run_sims(query, s) ==
    IF s.vectorizer.none \/ s.tfidf_matrix.none THEN << >>
    ELSE similarities(query, s.vectorizer, s.tfidf_matrix)

\* a variant whose sort does not depend on the array alone (a randomised sort)
argsort_again_unrelated(sims, seen_sims, seen_order) == argsort_desc(sims)

\* sims.argsort()[::-1] in a process that has sorted seen_sims into seen_order
\* before: argsort is a function of the array, so the same array is sorted
\* into the same order again
argsort_again(sims, seen_sims, seen_order) ==
    IF sims = seen_sims THEN { seen_order } ELSE argsort_desc(sims)

\* what one run leaves: the snapshot it built, the scores and their order,
\* and the result of retrieve_with_index
RunRecord(s, sims, order, query, top_k) ==
    [ snapshot |-> s, sims |-> sims, order |-> order,
      result |-> retrieve_with_index(query, s.vectorizer, s.tfidf_matrix, s.metadata,
                                     top_k, NoneStr, order) ]

\* the snapshot a run builds from the catalog d: build_corpus_from_data and
\* build_tfidf_index on the loaded data
run_snapshot(d) ==
    [ vectorizer   |-> index_of(built_from(loaded(d)).corpus).vectorizer,
      tfidf_matrix |-> index_of(built_from(loaded(d)).corpus).tfidf_matrix,
      metadata     |-> built_from(loaded(d)).metadata ]

InitTwoBuilds ==
    /\ ServerInit
    /\ fn = "none"
    /\ arg \in { [disk |-> d, query |-> q, top_k |-> k] :
                   d \in DiskStates, q \in RetrieveQueries, k \in 0..MaxTopK }
    /\ ret = [value |-> << >>]

\* the first run builds corpus and index from the catalog and answers the query
FirstBuild ==
    /\ fn = "none"
    /\ fn' = "first_build"
    /\ \E order \in argsort_desc(run_sims(arg.query, run_snapshot(arg.disk))) :
          ret' = [value |-> << RunRecord(run_snapshot(arg.disk),
                                         run_sims(arg.query, run_snapshot(arg.disk)),
                                         order, arg.query, arg.top_k) >>]
    /\ UNCHANGED << arg, server_vars >>

\* the second run does the same from the same catalog
SecondBuild ==
    /\ fn = "first_build"
    /\ fn' = "second_build"
    /\ \E order \in argsort_again(run_sims(arg.query, run_snapshot(arg.disk)),
                                  ret.value[1].sims, ret.value[1].order) :
          ret' = [value |-> Append(ret.value,
                                   RunRecord(run_snapshot(arg.disk),
                                             run_sims(arg.query, run_snapshot(arg.disk)),
                                             order, arg.query, arg.top_k))]
    /\ UNCHANGED << arg, server_vars >>

NextTwoBuilds ==
    \/ FirstBuild
    \/ SecondBuild

SpecTwoBuilds == InitTwoBuilds /\ [][NextTwoBuilds]_vars

---------------------------------------------------------------------------
(* Direct calls of build_corpus_from_data on loaded catalogs               *)

\* column names as the csv files spell them, and the cells of a row
FileColumns == { <<"N","a","m","e">>, <<" ","R","A","M"," ","S","i","z","e">>, <<"S","a","l","e"," ","P","r","i","c","e">>, <<"c","o","l","o","r">> }

Cells == { <<"a","c","m","e">>, <<" ","b","o","l","t"," ">>, <<" ">>, NaN }

\* how many rows a catalog file of these calls has at most
MaxRows == 2

\* the rows of a file with two columns
TwoColumnRows == UNION { [1..n -> [1..2 -> Cells]] : n \in 1..MaxRows }

\* two different columns
ColumnPairs == { cs \in [1..2 -> FileColumns] : cs[1] # cs[2] }

\* the catalogs: one csv file with two columns
CorpusCatalogs ==
    { [ exists |-> TRUE, files |-> << CsvFile(f, cs, rows) >> ] :
        f \in { <<"l","a","p","t","o","p",".","c","s","v">>, <<"M","o","b","i","l","e",".","c","s","v">> }, cs \in ColumnPairs,
        rows \in TwoColumnRows }

InitCorpus ==
    /\ ServerInit
    /\ fn = "none"
    /\ arg \in { [catalog |-> d] : d \in CorpusCatalogs }
    /\ ret = [value |-> << >>]

\* CORPUS, METADATA = build_corpus_from_data(load_data() or {})
CallBuildCorpus ==
    /\ fn = "none"
    /\ fn' = "build_corpus_from_data"
    /\ ret' = [value |-> build_corpus_from_data(load_data_or_empty(arg.catalog))]
    /\ UNCHANGED << arg, server_vars >>

NextCorpus == CallBuildCorpus

SpecCorpus == InitCorpus /\ [][NextCorpus]_vars

---------------------------------------------------------------------------
(* retrieve_with_index on an index of about MaxCandidates records          *)

\* the largest number of records an index of this section has beyond
\* MaxCandidates
MaxBeyond == 2

LargeSizes == (MaxCandidates - 1)..(MaxCandidates + MaxBeyond)

\* the scores of this section, highest first: two above the threshold and
\* one below it
ScoreLevels == << 2 * ScoreThreshold, ScoreThreshold + 1, ScoreThreshold - 2 >>

\* the last two records of the index carry any of the scores; every record
\* before them carries the highest
large_sims(a) ==
    [i \in 1..a.n |-> IF i > a.n - 2 THEN a.tail[a.n + 1 - i] ELSE ScoreLevels[1]]

\* the first record and those of the last two named in a.mobiles are
\* mobiles, the others laptops
large_metadata(a) ==
    [i \in 1..a.n |->
       [ category |-> IF i = 1 \/ (i > a.n - 2 /\ (a.n + 1 - i) \in a.mobiles)
                      THEN <<"m","o","b","i","l","e">> ELSE <<"l","a","p","t","o","p">>,
         index    |-> i - 1,
         row      |-> [columns |-> << <<"n","a","m","e">> >>, values |-> << <<"a","c","m","e">> >>] ]]

\* how the sort leaves records of equal score: by rising or by falling position
TieOrders == { "rising", "falling" }

\* sims.argsort()[::-1] for scores among ScoreLevels: the positions level by
\* level, each level in the tie order
large_argsort(sims, tie) ==
    LET n      == Len(sims)
        pos    == [i \in 1..n |-> IF tie = "rising" THEN i ELSE n + 1 - i]
        at(v)  == SelectSeq(pos, LAMBDA i : sims[i] = v)
    IN  at(ScoreLevels[1]) \o at(ScoreLevels[2]) \o at(ScoreLevels[3])

InitLargeIndex ==
    /\ ServerInit
    /\ fn = "none"
    /\ arg \in { [n |-> n, tail |-> t, mobiles |-> m, top_k |-> k, category_filter |-> c] :
                   n \in LargeSizes,
                   t \in [1..2 -> { ScoreLevels[i] : i \in DOMAIN ScoreLevels }],
                   m \in SUBSET (1..2), k \in 0..MaxTopK,
                   c \in { NoneStr, <<"m","o","b","i","l","e">> } }
    /\ ret = [value |-> << >>]

\* retrieve_with_index from the sort on, for a query that names no price and
\* no category
CallRetrieveLargeIndex ==
    /\ fn = "none"
    /\ fn' = "retrieve_large_index"
    /\ \E tie \in TieOrders :
          ret' = [value |-> retrieve_scan(large_argsort(large_sims(arg), tie),
                                          large_sims(arg), Bounds(None, None),
                                          large_metadata(arg), arg.top_k,
                                          arg.category_filter)]
    /\ UNCHANGED << arg, server_vars >>

NextLargeIndex == CallRetrieveLargeIndex

SpecLargeIndex == InitLargeIndex /\ [][NextLargeIndex]_vars

---------------------------------------------------------------------------
(* Direct calls of get_gemini_response                                     *)

\* the largest retries argument of a call
MaxRetries == 3

GeminiQueries == { <<"H","i">>, <<"w","h","o"," ","a","r","e"," ","y","o","u">> }

\* what the attempts of a call would meet, as far as the loop gets
GeminiEnvs ==
    { [api_key |-> k, attempts |-> a, text |-> GeneratedText] :
        k \in ApiKeys, a \in [1..MaxRetries -> AttemptOutcomes] }

InitGemini ==
    /\ ServerInit
    /\ fn = "none"
    /\ arg \in { [query |-> q, retries |-> r, env |-> e] :
                   q \in GeminiQueries, r \in 0..MaxRetries, e \in GeminiEnvs }
    /\ ret = [value |-> << >>]

CallGetGeminiResponse ==
    /\ fn = "none"
    /\ fn' = "get_gemini_response"
    /\ ret' = [value |-> get_gemini_response(arg.query, arg.retries, arg.env)]
    /\ UNCHANGED << arg, server_vars >>

NextGemini == CallGetGeminiResponse

SpecGemini == InitGemini /\ [][NextGemini]_vars
---------------------------------------------------------------------------
(* Properties of the rebuild (POST /admin/rebuild) and of the served index *)

\* the document build_corpus_from_data writes for each metadata entry
corpus_of(metadata) ==
    [i \in DOMAIN metadata |-> document_text(metadata[i].category, metadata[i].row)]

\* corpus[i] is the document of the record metadata[i] describes
Aligned(corpus, metadata) ==
    /\ Len(corpus) = Len(metadata)
    /\ corpus = corpus_of(metadata)

\* vectorizer and matrix are the index of the records metadata lists
SnapshotConsistent(s) ==
    LET index == build_tfidf_index(corpus_of(s.metadata))
    IN  /\ s.vectorizer = index.vectorizer
        /\ s.tfidf_matrix = index.tfidf_matrix

\* the four artifacts come from one build
OneBuild(corpus, metadata, vectorizer, tfidf_matrix) ==
    /\ Aligned(corpus, metadata)
    /\ SnapshotConsistent([vectorizer |-> vectorizer, tfidf_matrix |-> tfidf_matrix,
                           metadata |-> metadata])

Quiescent == \A w \in Workers : ~Busy(w)

\* C1: a query served while a rebuild is in progress is answered from one
\* snapshot: the METADATA it reads corresponds to the VECTORIZER and
\* TFIDF_MATRIX it reads.
C1_QueryDuringRebuildSeesOneSnapshot ==
    [][ (Search /\ \E w \in Workers : Busy(w)) => SnapshotConsistent(served) ]_vars

\* C2: when a rebuild whose index build failed has answered and no other
\* rebuild ran meanwhile, every query is answered as it was before the
\* rebuild started.
C2_FailedRebuildKeepsPriorIndex ==
    \A w \in Workers :
       (pc[w] = "respond" /\ loc[w].failed /\ ~loc[w].overlapped)
          => \A q \in SearchQueries :
                answers(q, served) = answers(q, loc[w].prior)

\* C3: rebuilds are serialized: once every rebuild request has finished, the
\* served CORPUS, METADATA, VECTORIZER and TFIDF_MATRIX come from one build,
\* and so do the four persisted artifacts.
C3_RebuildsSerialized ==
    Quiescent =>
       /\ OneBuild(CORPUS, METADATA, VECTORIZER, TFIDF_MATRIX)
       /\ all_persisted(persist) =>
             OneBuild(persist.corpus.value, persist.meta.value,
                      persist.vec.value, persist.mat.value)

\* C8: build_corpus_from_data gives one document and one metadata entry per
\* record, in the same order, each entry holding the record's category, its
\* index in the table and its row; and between requests the served CORPUS and
\* METADATA are aligned in this way.
C8_CorpusMetadataAligned ==
    /\ \A d \in DiskStates :
          LET data  == load_data_or_empty(d)
              built == build_corpus_from_data(data)
          IN  /\ Aligned(built.corpus, built.metadata)
              /\ \A i \in DOMAIN built.metadata :
                    \E k \in DOMAIN data :
                       /\ data[k].category = built.metadata[i].category
                       /\ built.metadata[i].index + 1 \in DOMAIN data[k].rows
                       /\ row_of(data[k], built.metadata[i].index + 1)
                             = built.metadata[i].row
    /\ Quiescent => Aligned(CORPUS, METADATA)

---------------------------------------------------------------------------
(* Properties of retrieve_with_index                                       *)

\* the record a hit was made from
hit_row(hit, metadata) ==
    (CHOOSE m \in Range(metadata) :
        m.category = hit.meta.category /\ m.index = hit.meta.index).row

Returned == fn = "retrieve_with_index" /\ ~ret.value.raised

\* C4: for every top_k >= 0 the result has at most top_k hits, and the hits
\* are in non-increasing order of score.
C4_AtMostTopKDescending ==
    Returned =>
       LET hits == ret.value.hits
       IN  /\ Len(hits) <= arg.top_k
           /\ \A i \in 1..(Len(hits) - 1) : hits[i].score >= hits[i + 1].score

\* C5: when the query carries a price bound, no hit with an extractable price
\* lies below the minimum or above the maximum.
C5_PriceBoundsRespected ==
    Returned =>
       LET bounds == parse_price_constraints(arg.query)
           hits   == ret.value.hits
       IN  \A i \in DOMAIN hits :
              LET price == extract_price_value(hit_row(hits[i], arg.snapshot.metadata))
              IN  price.kind = "num" =>
                     /\ bounds.min.kind = "num" => price.val >= bounds.min.val
                     /\ bounds.max.kind = "num" => price.val <= bounds.max.val

\* C6: when the query carries a price bound, no hit is a record whose price
\* cannot be extracted.
C6_UnpricedExcludedUnderBound ==
    Returned =>
       LET bounds == parse_price_constraints(arg.query)
           hits   == ret.value.hits
       IN  (bounds.min.kind = "num" \/ bounds.max.kind = "num") =>
              \A i \in DOMAIN hits :
                 extract_price_value(hit_row(hits[i], arg.snapshot.metadata)).kind = "num"

\* C7: when a category filter is in force, given explicitly or else inferred
\* from the words of the query, every hit is of that category.
C7_CategoryFilterRespected ==
    Returned =>
       LET explicit == arg.category_filter
           inferred == infer_category(lower(arg.query))
           filter   == IF explicit # NoneStr /\ explicit # << >> THEN explicit ELSE inferred
       IN  filter # NoneStr =>
              \A i \in DOMAIN ret.value.hits : ret.value.hits[i].meta.category = filter

\* the explicit filter "mobile" kept the mobile that matches "acme" and
\* dropped the two laptops that match it as well
C7_Witness ==
    /\ Returned
    /\ arg.query = <<"a","c","m","e">>
    /\ arg.category_filter = <<"m","o","b","i","l","e">>
    /\ arg.snapshot = SnapshotA
    /\ arg.top_k = 2
    /\ Len(ret.value.hits) = 1
    /\ Cardinality({ i \in DOMAIN SnapshotA.metadata :
                       similarities(arg.query, SnapshotA.vectorizer,
                                    SnapshotA.tfidf_matrix)[i] >= ScoreThreshold }) = 3

---------------------------------------------------------------------------
(* Properties of parse_price_constraints                                   *)

\* the number a captured group of digits and commas stands for, in hundredths
group_value(g) == 100 * NatOf(Filter(g, Digit))

has_digit(g) == Filter(g, Digit) # << >>

Parsed == fn = "parse_price_constraints"

C10_DefaultsForMissingBound ==
    Parsed =>
       LET q  == lower(arg.query)
           r  == ret.value
           m1 == search_between(q)
           m2 == search_range(q)
           m3 == search_upper(q)
           m4 == search_lower(q)
       IN  /\ (~m1.ok /\ ~m2.ok /\ m3.ok /\ has_digit(m3.g1))
                 => r.min = Num(0) /\ r.max = Num(group_value(m3.g1))
           /\ (~m1.ok /\ ~m2.ok /\ ~m3.ok /\ m4.ok /\ has_digit(m4.g1))
                 => r.min = Num(group_value(m4.g1)) /\ r.max = Inf

\* position j of q starts a word: no letter, digit or underscore precedes it
starts_word(q, j) == j = 1 \/ q[j - 1] \notin WordChar

\* one of the keywords, standing as a word, is followed by an amount
keyword_word_match(q, kws) ==
    \E j \in DOMAIN q : match_keyword_at(q, j, kws).ok /\ starts_word(q, j)

\* C11: a number yields a price bound only when a bound keyword standing as a
\* word or a range form qualifies it; a number after a word that merely
\* contains a keyword ("discover 5") yields (None, None).
C11_NoBoundWithoutKeywordWord ==
    (Parsed /\ ~ret.value.raised) =>
       LET q == lower(arg.query)
           r == ret.value
       IN  /\ (~search_between(q).ok /\ ~search_range(q).ok) =>
                 /\ r.max.kind = "num" => keyword_word_match(q, UpperKeywords)
                 /\ r.min.kind = "num" => keyword_word_match(q, LowerKeywords)
           /\ arg.query = <<"d","i","s","c","o","v","e","r"," ","5"," ">> => r = Bounds(None, None)


\* generate_chat_response has been called
Chatted == fn = "generate_chat_response"

\* the message as the rules read it
chat_text == strip(lower(arg.query))

RuleOrder ==
    << "Greeting", "Farewell", "Thanks", "HelpRequest", "IdentityQuestion",
       "ProductQuery", "GeneralOther" >>

\* rule n of the decision order matches the message q
rule_matches(q, n) ==
    CASE n = 1 -> ContainsAny(q, greetings) /\ Len(split(q)) < 3
      [] n = 2 -> ContainsAny(q, farewells)
      [] n = 3 -> ContainsAny(q, thanks)
      [] n = 4 -> ContainsAny(q, help_words)
      [] n = 5 -> ContainsAny(q, identity_words)
      [] n = 6 -> ContainsAny(q, product_keywords)
      [] n = 7 -> TRUE

\* the first rule of the decision order that matches q
first_rule(q) ==
    RuleOrder[CHOOSE n \in 1..7 : rule_matches(q, n) /\ \A m \in 1..(n - 1) : ~rule_matches(q, m)]

\* the rule the call is seen to have applied: a canned reply names its rule,
\* a call of retrieve_with_index is the product route, and a lone call of the
\* responder with the message itself is the general route
applied_rule(r) ==
    IF r.calls = << >>
    THEN IF \E k \in CannedKinds : r.value = general_dict(canned_text(k))
         THEN CHOOSE k \in CannedKinds : r.value = general_dict(canned_text(k))
         ELSE "none"
    ELSE IF r.calls[1].fn = "retrieve_with_index" THEN "ProductQuery"
    ELSE "GeneralOther"

\* C12: every message is answered by the first rule that matches in the order
\* greeting word with fewer than 3 tokens, farewell, thanks, help, identity,
\* product keyword, general.
C12_FirstMatchingRule ==
    Chatted =>
       /\ applied_rule(ret.value) = first_rule(chat_text)
       /\ applied_rule(ret.value) = "GeneralOther" => ret.value.calls[1].query = arg.query

\* a message with a greeting word and three tokens went the general route
C12_Witness ==
    /\ Chatted
    /\ ContainsAny(chat_text, greetings)
    /\ Len(split(chat_text)) = 3
    /\ applied_rule(ret.value) = "GeneralOther"

\* the call took the product route and retrieve_with_index returned no hit
NoHitProductQuery ==
    /\ Chatted
    /\ ret.value.calls # << >>
    /\ ret.value.calls[1].fn = "retrieve_with_index"
    /\ ~ret.value.calls[1].result.raised
    /\ ret.value.calls[1].result.hits = << >>

\* C13: a product query without hits is answered with type 'general' and the
\* text the responder gave for the message annotated that nothing matched;
\* type 'product' never carries an empty result list.
C13_NoHitsFallBackToResponder ==
    /\ NoHitProductQuery =>
          /\ ~ret.value.raised
          /\ ret.value.value.type = "general"
          /\ "results" \notin ret.value.value.keys
          /\ Len(ret.value.calls) = 2
          /\ ret.value.calls[2].fn = "get_gemini_response"
          /\ Contains(ret.value.calls[2].query, arg.query)
          /\ Contains(ret.value.calls[2].query, <<"c","o","u","l","d"," ","n","o","t"," ","f","i","n","d"," ","m","a","t","c","h","i","n","g"," ","p","r","o","d","u","c","t","s">>)
          /\ ret.value.value.response = ret.value.calls[2].result.text
    /\ (Chatted /\ ~ret.value.raised /\ ret.value.value.type = "product") =>
          ret.value.value.results # << >>

\* a product query found nothing in a built index and the responder answered
C13_Witness ==
    /\ NoHitProductQuery
    /\ arg.snapshot = SnapshotA
    /\ ret.value.value.response = GeneratedText

\* the responder was called and could use its key
ResponderTried ==
    /\ Chatted
    /\ ret.value.calls # << >>
    /\ ret.value.calls[Len(ret.value.calls)].fn = "get_gemini_response"
    /\ ~Falsy(arg.env.api_key)
    /\ arg.env.api_key # DummyKey

\* every attempt of the call raised
AllAttemptsRaise ==
    /\ Len(arg.env.attempts) = DefaultRetries
    /\ \A i \in DOMAIN arg.env.attempts : arg.env.attempts[i] \in { "no_model", "raise" }

\* an attempt got an empty response
EmptyResponse == arg.env.attempts[Len(arg.env.attempts)] = "empty"

\* C14: when the responder raises on every attempt or returns an empty
\* response, generate_chat_response does not raise and answers a fixed apology.
C14_ResponderFailureTolerated ==
    ResponderTried =>
       /\ ~ret.value.raised
       /\ AllAttemptsRaise => ret.value.value = general_dict(ConnectReply)
       /\ EmptyResponse => ret.value.value = general_dict(EmptyReply)

\* both attempts reached the responder and raised
C14_Witness ==
    /\ ResponderTried
    /\ arg.env.attempts = << "raise", "raise" >>
    /\ Len(ret.value.calls[Len(ret.value.calls)].result.prompts) = DefaultRetries
    /\ ret.value.value.response = ConnectReply

\* C15: a Greeting, Farewell, Thanks, HelpRequest or IdentityQuestion gets its
\* fixed string and neither the responder nor retrieve_with_index is called.
C15_CannedRepliesCallNothing ==
    (Chatted /\ first_rule(chat_text) \in CannedKinds) =>
       /\ ret.value.calls = << >>
       /\ ~ret.value.raised
       /\ ret.value.value = general_dict(canned_text(first_rule(chat_text)))

\* a help request answered with no key and no index
C15_Witness ==
    /\ Chatted
    /\ first_rule(chat_text) = "HelpRequest"
    /\ arg.env.api_key = NoneStr
    /\ arg.snapshot = NoIndexSnapshot
    /\ ret.value.calls = << >>
    /\ ret.value.value.response = HelpReply

---------------------------------------------------------------------------
(* Properties of loading and rebuilding                                    *)

\* the categories of the csv files of d that can be read
readable_categories(d) ==
    { read_csv(CsvFiles(d)[i]).category :
        i \in { k \in DOMAIN CsvFiles(d) : CsvFiles(d)[k].readable } }

\* the categories a loaded DATA holds
categories_of(data) == { data[i].category : i \in DOMAIN data }

\* C16: a load keeps every category whose file can be read: when a rebuild
\* loads a directory in which one file is unreadable, the other categories are
\* in DATA afterwards.
C16_UnreadableCategoryDropped ==
    [][\A w \in Workers :
          RebuildLoad(w) => readable_categories(disk) \subseteq categories_of(DATA')]_vars

\* C17: a rebuild whose load or index build failed does not answer
\* 'index rebuilt'.
C17_FailedRebuildReported ==
    [][\A w \in Workers :
          (RebuildRespond(w) /\ loc[w].failed)
             => ~(resp'.status = 200 /\ resp'.body = "index rebuilt")]_vars

---------------------------------------------------------------------------
(* Properties of the admin endpoints                                       *)

\* one of the three admin handlers has answered
AdminCalled == fn \in { "admin_rebuild", "admin_rotate", "admin_reset_password" }

\* the request carries no Authorization header and no token
NoAdminCredentials ==
    /\ arg.req.authorization = NoAuthorization
    /\ Falsy(request_token(arg.req))

\* C18: a POST without admin credentials to /admin/rebuild, /admin/rotate or
\* /admin/reset_password is answered with status 401.
C18_UnauthenticatedIs401 ==
    (AdminCalled /\ NoAdminCredentials) => ret.value.status = 401

\* ADMIN_USER and ADMIN_PASS are set and no credentials file is persisted
BasicAuthMode ==
    /\ ~Falsy(arg.admin.ADMIN_USER)
    /\ ~Falsy(arg.admin.ADMIN_PASS)
    /\ arg.admin.credentials = NoCredentialsFile

\* C19: when ADMIN_USER and ADMIN_PASS are set, a request gets past
\* is_admin_authenticated only with Basic auth that matches them; a valid
\* token alone is rejected.
C19_BasicAuthModeIgnoresToken ==
    (AdminCalled /\ BasicAuthMode /\ ret.value.status # 403) =>
       /\ arg.req.authorization.present
       /\ arg.req.authorization.username = arg.admin.ADMIN_USER
       /\ arg.req.authorization.password = arg.admin.ADMIN_PASS

---------------------------------------------------------------------------
(* Properties of POST /search                                              *)

\* the JSON body carries q, page and per_page and no category
QueryPagePayload ==
    /\ arg.payload.present
    /\ ~Falsy(arg.payload.q)
    /\ arg.payload.page.kind = "int"
    /\ arg.payload.per_page.kind = "int"
    /\ arg.payload.category = NoneStr

\* C20: a POST to /search with q, page and per_page and no category is
\* answered 200 with a 'query' or a 'results' key in the body.
C20_PostSearchWithQueryAnswered ==
    (fn = "api_search" /\ QueryPagePayload) =>
       /\ ret.value.status = 200
       /\ ret.value.keys \cap { "query", "results" } # {}

---------------------------------------------------------------------------
(* Properties of POST /chat                                                *)

\* C21: a POST to /chat with a non-empty message is answered 200 with a
\* 'reply' or a 'query' key in the body.
C21_ChatAnsweredWithReply ==
    (fn = "api_chat" /\ arg.payload.present /\ ~Falsy(arg.payload.message)) =>
       /\ ret.value.status = 200
       /\ ret.value.keys \cap { "reply", "query" } # {}

---------------------------------------------------------------------------
(* Properties of the index build                                           *)

\* the categories, row indices and scores of the hits, in order
ranking(result) ==
    [ i \in DOMAIN result.hits |->
        << result.hits[i].meta.category, result.hits[i].meta.index, result.hits[i].score >> ]

CorpusBuilt == fn = "build_corpus_from_data"

\* a cell that is missing or empty once stripped
blank(val) == val = NaN \/ strip(val) = << >>

\* what the fields from position k on add to a document: for a field that is
\* not blank its name, then its value three times when the name as the file
\* spells it holds an important name in any letter case, once otherwise
RECURSIVE weighted_fields(_, _, _)
weighted_fields(file_columns, values, k) ==
    IF k > Len(file_columns) THEN << >>
    ELSE (IF blank(values[k]) THEN << >>
          ELSE << normalize_column(file_columns[k]) >>
               \o (IF ContainsAny(lower(file_columns[k]), important_fields)
                   THEN << strip(values[k]), strip(values[k]), strip(values[k]) >>
                   ELSE << strip(values[k]) >>))
         \o weighted_fields(file_columns, values, k + 1)

\* C23: the text of every record is the category tag three times followed by
\* the weighted fields; blank values add neither name nor value.
C23_DocumentText ==
    CorpusBuilt =>
       LET file == arg.catalog.files[1]
           tag  == read_csv(file).category
       IN  /\ Len(ret.value.corpus) = Len(file.rows)
           /\ \A i \in DOMAIN file.rows :
                 ret.value.corpus[i] =
                    join(<< tag, tag, tag >> \o weighted_fields(file.columns, file.rows[i], 1))

\* a record whose important column is spelled with capitals in the file and
\* whose other cell is blank
C23_Witness ==
    /\ CorpusBuilt
    /\ arg.catalog.files[1].columns = << <<" ","R","A","M"," ","S","i","z","e">>, <<"c","o","l","o","r">> >>
    /\ arg.catalog.files[1].rows[1] = << <<" ","b","o","l","t"," ">>, <<" ">> >>
    /\ ret.value.corpus[1] = <<"l","a","p","t","o","p"," ","l","a","p","t","o","p"," ","l","a","p","t","o","p"," ","r","a","m","_","s","i","z","e"," ","b","o","l","t"," ","b","o","l","t"," ","b","o","l","t">>

---------------------------------------------------------------------------
\* the records that score strictly higher than record i
outscoring(sims, i) == { j \in DOMAIN sims : sims[j] > sims[i] }

LargeIndexAnswered == fn = "retrieve_large_index"

\* C24: every hit retrieve_with_index returns has a score of at least 0.05
\* and is one of the 200 records of highest score (fewer than 200 records
\* score higher than it), also when fewer than top_k hits were accepted
C24_HitsFromWorkingSet ==
    LargeIndexAnswered =>
       /\ ~ret.value.raised
       /\ \A k \in DOMAIN ret.value.hits :
             /\ ret.value.hits[k].score >= ScoreThreshold
             /\ Cardinality(outscoring(large_sims(arg),
                                       ret.value.hits[k].meta.index + 1)) < MaxCandidates

\* 202 records, the last a mobile that scores above the threshold and lower
\* than the first 200, the one before it a mobile below the threshold: a
\* search for two mobiles returns the first record alone
C24_Witness ==
    /\ LargeIndexAnswered
    /\ arg.n = MaxCandidates + 2
    /\ arg.tail = << ScoreLevels[2], ScoreLevels[3] >>
    /\ arg.mobiles = { 1, 2 }
    /\ arg.category_filter = <<"m","o","b","i","l","e">>
    /\ arg.top_k = 2
    /\ Len(ret.value.hits) = 1
    /\ ret.value.hits[1].meta.index = 0

---------------------------------------------------------------------------
RetrieveAnswered == fn = "retrieve_with_index"

\* the position in the corpus of the record a hit names by (category, index)
doc_id(metadata, m) ==
    CHOOSE d \in DOMAIN metadata :
       metadata[d].category = m.category /\ metadata[d].index = m.index

\* C25: of two hits of equal score, retrieve_with_index returns the one with
\* the lower doc_id (position in the corpus) first
C25_TiesByDocId ==
    (RetrieveAnswered /\ ~ret.value.raised) =>
       \A i, j \in DOMAIN ret.value.hits :
          (i < j /\ ret.value.hits[i].score = ret.value.hits[j].score) =>
             doc_id(arg.snapshot.metadata, ret.value.hits[i].meta)
                < doc_id(arg.snapshot.metadata, ret.value.hits[j].meta)

---------------------------------------------------------------------------
\* the records of the index that score at least the threshold for the query
\* and that the price bounds of the query do not exclude
acceptable(query, s) ==
    LET sims  == similarities(query, s.vectorizer, s.tfidf_matrix)
        price == parse_price_constraints(query)
    IN  { d \in DOMAIN s.metadata :
            /\ sims[d] >= ScoreThreshold
            /\ ~price_skip(price.min, price.max, extract_price_value(s.metadata[d].row)) }

hit_ids(s, hits) == { doc_id(s.metadata, hits[k].meta) : k \in DOMAIN hits }

\* C26: an explicit category filter is the one applied, whatever the query
\* names; without one the category of the first keyword group the query
\* names is applied; without a filter and without a keyword the call does
\* not raise and no record is held back for its category
C26_CategoryInference ==
    RetrieveAnswered =>
       LET given == ~Falsy(arg.category_filter)
           named == infer_category(lower(arg.query))
           hits  == ret.value.hits
       IN  /\ given => \A k \in DOMAIN hits : hits[k].meta.category = arg.category_filter
           /\ (~given /\ named # NoneStr) =>
                 \A k \in DOMAIN hits : hits[k].meta.category = named
           /\ (~given /\ named = NoneStr) =>
                 /\ ~ret.value.raised
                 /\ Len(hits) < arg.top_k =>
                       hit_ids(arg.snapshot, hits) = acceptable(arg.query, arg.snapshot)

\* the filter 'laptop' with a query that names mobiles returns laptops
C26_Witness ==
    /\ RetrieveAnswered
    /\ arg.category_filter = <<"l","a","p","t","o","p">>
    /\ arg.query = <<"m","o","b","i","l","e"," ","a","c","m","e">>
    /\ Len(ret.value.hits) > 0
    /\ \A k \in DOMAIN ret.value.hits : ret.value.hits[k].meta.category = <<"l","a","p","t","o","p">>

\* a query without a keyword and without a filter returns records of two
\* categories
C26_WitnessNoFilter ==
    /\ RetrieveAnswered
    /\ Falsy(arg.category_filter)
    /\ infer_category(lower(arg.query)) = NoneStr
    /\ \E j, k \in DOMAIN ret.value.hits :
          ret.value.hits[j].meta.category # ret.value.hits[k].meta.category

---------------------------------------------------------------------------
\* C27: parse_price_constraints returns a (min, max) pair for every query
\* and raises for none, also when a captured number group holds commas only
C27_ParseNeverRaises == Parsed => ~ret.value.raised

---------------------------------------------------------------------------
\* C28: when admin_rotate answers 500, a request with the token that
\* authenticated before still authenticates, and ADMIN_TOKEN differs from
\* its value before the request only when the rotation answered 200
C28_FailedRotateKeepsToken ==
    (fn = "admin_rotate" /\ ret.value.status # 200) =>
       /\ ret.value.admin.ADMIN_TOKEN = arg.admin.ADMIN_TOKEN
       /\ is_admin_authenticated(arg.admin, TokenRequest(arg.admin.ADMIN_TOKEN))
             => is_admin_authenticated(ret.value.admin, TokenRequest(arg.admin.ADMIN_TOKEN))

---------------------------------------------------------------------------
AdminHandlers == { "admin_rebuild", "admin_rotate", "admin_reset_password" }

\* C29: a request to /admin/rebuild, /admin/rotate or /admin/reset_password
\* that fails is_admin_authenticated changes nothing: DATA, CORPUS, METADATA,
\* VECTORIZER, TFIDF_MATRIX, the persisted index, ADMIN_TOKEN, the token
\* file and the stored credentials are after the request what they were
\* before it
C29_FailedAuthChangesNothing ==
    [][ (fn' \in AdminHandlers /\ ~is_admin_authenticated(arg.admin, arg.req)) =>
           /\ ret'.value.status = 403
           /\ ret'.value.admin = arg.admin
           /\ UNCHANGED << DATA, CORPUS, METADATA, VECTORIZER, TFIDF_MATRIX, persist >> ]_vars

\* /admin/rebuild refused for a wrong token, with an index in service
C29_Witness ==
    /\ fn = "admin_rebuild"
    /\ arg.req.header_token = <<"w","r","o","n","g">>
    /\ ~is_admin_authenticated(arg.admin, arg.req)
    /\ ret.value.status = 403
    /\ ~VECTORIZER.none

\* /admin/rotate refused for a wrong password
C29_WitnessRotate ==
    /\ fn = "admin_rotate"
    /\ arg.req.authorization.present
    /\ ~is_admin_authenticated(arg.admin, arg.req)
    /\ ret.value.admin = arg.admin

\* /admin/reset_password refused, with a body that names new credentials
C29_WitnessResetPassword ==
    /\ fn = "admin_reset_password"
    /\ ~is_admin_authenticated(arg.admin, arg.req)
    /\ ~Falsy(arg.req.json.username) /\ ~Falsy(arg.req.json.password)
    /\ ret.value.admin = arg.admin

---------------------------------------------------------------------------
KeyConfigured == ~Falsy(arg.env.api_key) /\ arg.env.api_key # DummyKey

\* the attempts among the first retries that end the loop by returning
answering(attempts, retries) ==
    { i \in 1..retries : attempts[i] \in { "text", "empty" } }

\* the number of attempts the loop makes: up to the first that returns
attempts_made(attempts, retries) ==
    IF answering(attempts, retries) = { } THEN retries
    ELSE CHOOSE i \in answering(attempts, retries) :
            \A j \in answering(attempts, retries) : i <= j

\* C30: with a key configured, get_gemini_response(query, retries=r) for any
\* r >= 0 returns a string, calls the service at most r times, stops at the
\* first attempt that does not raise and sleeps once between one attempt
\* and the next only
C30_GeminiReturnsString ==
    (fn = "get_gemini_response" /\ KeyConfigured) =>
       LET made == attempts_made(arg.env.attempts, arg.retries)
       IN  /\ ret.value.text # NoneStr
           /\ Len(ret.value.prompts) <= arg.retries
           /\ Len(ret.value.prompts) <= made
           /\ ret.value.sleeps = IF made = 0 THEN 0 ELSE made - 1
           /\ answering(arg.env.attempts, arg.retries) # { } =>
                 ret.value.text = IF arg.env.attempts[made] = "text"
                                  THEN arg.env.text ELSE EmptyReply
=============================================================================
